---------------------------- MODULE Spec2Model ----------------------------
(***************************************************************************)
(* Options pricing, strategy payoff and hedge search of goquant_arnav.     *)
(*                                                                         *)
(* The pricing, strategy and hedge services are stateless: for them the     *)
(* state of the model is the call in progress (or the last call made) and  *)
(* what it has produced so far.  The Portfolio object keeps its positions  *)
(* and its transaction history between calls.                              *)
(*                                                                         *)
(* Numbers.  Python floats are modelled by exact integers on a grid:       *)
(*   - underlying prices, strikes and premiums: quote-currency units;      *)
(*   - deltas and hedge quantities: thousandths (0.01 is 10);              *)
(*   - volatilities: hundredths (0.5 is 50, the clamp [0.01, 5.0] is       *)
(*     [1, 500]);                                                          *)
(*   - quotients that leave the grid are kept as exact fractions n/d.      *)
(* Floating-point rounding is not modelled, except where a result is       *)
(* compared with the exact value it rounds (the product quantity * delta   *)
(* of the hedge search).                                                   *)
(***************************************************************************)
EXTENDS Integers, Sequences, FiniteSets, TLC

VARIABLES call, ret, portfolio, bot

vars == <<call, ret, portfolio, bot>>

---------------------------------------------------------------------------
(* Arithmetic helpers (Python built-ins max, min, abs).                    *)

Max(a, b) == IF a >= b THEN a ELSE b

Min(a, b) == IF a <= b THEN a ELSE b

Abs(a) == IF a < 0 THEN -a ELSE a

(* What a call produces: a returned value, or a raised exception.          *)
NoError == "none"

\* A call that has been made and has not run yet.
Called == [pc |-> "called"]

\* A dict with no key.
EmptyDict == [k \in {} |-> 0]

\* Portfolio.__init__: no position, no transaction.
EmptyPortfolio == [positions |-> EmptyDict, transactions |-> <<>>]

\* The metrics the risk watcher compares with a threshold.
RiskMetrics == {"abs_delta", "var_95", "max_drawdown"}

\* No user has started the bot yet.
NoUser == [is_known |-> FALSE, id |-> 0]

\* TelegramBot.__init__: the risk thresholds (BTC, USD, hundredths), no
\* alert sent for any metric, no user to alert.
NewBot ==
    [risk_config |-> [abs_delta |-> 5, var_95 |-> 10000, max_drawdown |-> 15],
     risk_alert_state |-> [m \in RiskMetrics |-> FALSE],
     main_user_id |-> NoUser]

---------------------------------------------------------------------------
(* PricingEngine: src/src/services/options_pricing.py                      *)

\* Largest underlying price / strike of the pricing inputs (grid units).
MaxPrice == 3

Spots == 1..MaxPrice

\* Time to expiry: only its sign decides the branch taken.
Expiries == {-1, 0, 1, 2}

\* Risk-free rate in percent.
Rates == {-5, 0, 5}

\* Volatility in hundredths, degenerate values included.
Sigmas == {-50, 0, 1, 50}

OptionTypes == {"call", "put"}

\* The closed form S*Phi(d1) - K*exp(-rT)*Phi(d2) is transcendental (log,
\* erf, exp); the model keeps only that it is some value of the price grid.
ClosedFormValues == 0..MaxPrice

\* Evaluating d1 = (log(S/K) + (r + sigma^2/2) T) / (sigma sqrt(T)): the
\* exception Python raises, in evaluation order, or none.
D1Raises(S, K, T, sigma) ==
    IF K = 0 THEN "ZeroDivisionError"
    ELSE IF S * K <= 0 THEN "ValueError"
    ELSE IF T < 0 THEN "ValueError"
    ELSE IF sigma = 0 \/ T = 0 THEN "ZeroDivisionError"
    ELSE NoError

\* The T <= 0 guard of black_scholes_call taken as T < 0.
black_scholes_call_strict(S, K, T, r, sigma) ==
    IF T < 0
    THEN {[raised |-> NoError, value |-> Max(S - K, 0), d1_evaluated |-> FALSE]}
    ELSE IF D1Raises(S, K, T, sigma) # NoError
    THEN {[raised |-> D1Raises(S, K, T, sigma), d1_evaluated |-> TRUE]}
    ELSE {[raised |-> NoError, value |-> v, d1_evaluated |-> TRUE] :
              v \in ClosedFormValues}

\* The set of outcomes of black_scholes_call(S, K, T, r, sigma).
black_scholes_call(S, K, T, r, sigma) ==
    IF T <= 0
    THEN {[raised |-> NoError, value |-> Max(S - K, 0), d1_evaluated |-> FALSE]}
    ELSE IF D1Raises(S, K, T, sigma) # NoError
    THEN {[raised |-> D1Raises(S, K, T, sigma), d1_evaluated |-> TRUE]}
    ELSE {[raised |-> NoError, value |-> v, d1_evaluated |-> TRUE] :
              v \in ClosedFormValues}

\* The set of outcomes of black_scholes_put(S, K, T, r, sigma).
black_scholes_put(S, K, T, r, sigma) ==
    IF T <= 0
    THEN {[raised |-> NoError, value |-> Max(K - S, 0), d1_evaluated |-> FALSE]}
    ELSE IF D1Raises(S, K, T, sigma) # NoError
    THEN {[raised |-> D1Raises(S, K, T, sigma), d1_evaluated |-> TRUE]}
    ELSE {[raised |-> NoError, value |-> v, d1_evaluated |-> TRUE] :
              v \in ClosedFormValues}

\* The calls a client of the pricing service can make.
PricingCalls ==
    [name : {"black_scholes_call", "black_scholes_put"},
     S : Spots, K : Spots, T : Expiries, r : Rates, sigma : Sigmas]

\* black_scholes_call runs to its return or its exception.
PriceCall ==
    /\ call.name = "black_scholes_call"
    /\ ret.pc = "called"
    /\ \E out \in black_scholes_call(call.S, call.K, call.T, call.r, call.sigma) :
           ret' = [pc |-> "done"] @@ out
    /\ UNCHANGED <<call, portfolio, bot>>

\* black_scholes_put runs to its return or its exception.
PricePut ==
    /\ call.name = "black_scholes_put"
    /\ ret.pc = "called"
    /\ \E out \in black_scholes_put(call.S, call.K, call.T, call.r, call.sigma) :
           ret' = [pc |-> "done"] @@ out
    /\ UNCHANGED <<call, portfolio, bot>>

\* Phi(d1) on the delta grid (thousandths): some value of [0, 1].
CdfValues == {0, 500, 1000}

\* Raw vega S*sqrt(T)*phi(d1) per 1.0 of volatility, in price units: never
\* negative; 0 stands for every value below the 1e-10 guard.
VegaValues == {0, 1, 2}

\* The delta of a put without its shift by one.
DeltaUnshifted(option_type, cdf) == cdf

\* delta = Phi(d1) for a call, Phi(d1) - 1 for a put (thousandths).
DeltaOf(option_type, cdf) == IF option_type = "call" THEN cdf ELSE cdf - 1000

\* The set of outcomes of calculate_greeks(S, K, T, r, sigma, option_type).
\* At T > 0 gamma, theta and rho keep their sign only (-1, 0, 1).
calculate_greeks(S, K, T, r, sigma, option_type) ==
    IF T <= 0
    THEN {[raised |-> NoError,
           delta |-> IF option_type = "call"
                     THEN (IF S > K THEN 1000 ELSE 0)
                     ELSE (IF S < K THEN -1000 ELSE 0),
           gamma |-> 0, theta |-> 0, vega |-> 0, rho |-> 0]}
    ELSE IF D1Raises(S, K, T, sigma) # NoError
    THEN {[raised |-> D1Raises(S, K, T, sigma)]}
    ELSE {[raised |-> NoError,
           delta |-> DeltaOf(option_type, cdf),
           gamma |-> g, theta |-> -g,
           vega |-> v,
           rho |-> IF option_type = "call" THEN g ELSE -g] :
              cdf \in CdfValues, v \in VegaValues, g \in {0, 1}}

\* calculate_greeks runs to its return or its exception.
Greeks ==
    /\ call.name = "calculate_greeks"
    /\ ret.pc = "called"
    /\ \E out \in calculate_greeks(call.S, call.K, call.T, call.r, call.sigma,
                                   call.option_type) :
           ret' = [pc |-> "done"] @@ out
    /\ UNCHANGED <<call, portfolio, bot>>

GreeksCalls ==
    [name : {"calculate_greeks"}, S : Spots, K : Spots, T : Expiries,
     r : {5}, sigma : Sigmas, option_type : OptionTypes]

\* The set of outcomes of risk.greeks.black_scholes_delta(S, K, T, r, sigma,
\* option_type), delta in thousandths.
black_scholes_delta(S, K, T, r, sigma, option_type) ==
    IF T <= 0
    THEN {[raised |-> NoError,
           delta |-> IF option_type = "call" THEN 1000 ELSE -1000]}
    ELSE IF D1Raises(S, K, T, sigma) # NoError
    THEN {[raised |-> D1Raises(S, K, T, sigma)]}
    ELSE {[raised |-> NoError,
           delta |-> IF option_type = "call" THEN cdf ELSE cdf - 1000] :
              cdf \in CdfValues}

\* black_scholes_delta runs to its return or its exception.
RiskDelta ==
    /\ call.name = "black_scholes_delta"
    /\ ret.pc = "called"
    /\ \E out \in black_scholes_delta(call.S, call.K, call.T, call.r,
                                      call.sigma, call.option_type) :
           ret' = [pc |-> "done"] @@ out
    /\ UNCHANGED <<call, portfolio, bot>>

RiskDeltaCalls ==
    [name : {"black_scholes_delta"}, S : Spots, K : Spots, T : Expiries,
     r : {5}, sigma : Sigmas, option_type : OptionTypes]

InitPricing ==
    /\ call \in PricingCalls \cup GreeksCalls \cup RiskDeltaCalls
    /\ ret = Called
    /\ portfolio = EmptyPortfolio
    /\ bot = NewBot

NextPricing == PriceCall \/ PricePut \/ Greeks \/ RiskDelta

SpecPricing == InitPricing /\ [][NextPricing]_vars

---------------------------------------------------------------------------
(* calculate_implied_volatility: the Newton-Raphson loop, one action per   *)
(* loop body.                                                              *)

\* for _ in range(100)
MAX_ITERATIONS == 100

\* sigma = 0.5
INITIAL_SIGMA == 50

\* max(0.01, min(5.0, sigma_new))
SIGMA_FLOOR == 1

SIGMA_CAP == 500

\* A range one body too long.
RangeOneTooLong(iter) == iter <= MAX_ITERATIONS

\* The loop runs another body while the range is not exhausted.
RangeNotExhausted(iter) == iter < MAX_ITERATIONS

\* The price the body computes at sigma: black_scholes_call or _put.
IVPrices(c, sigma) ==
    IF c.option_type = "call"
    THEN black_scholes_call(c.S, c.K, c.T, c.r, sigma)
    ELSE black_scholes_put(c.S, c.K, c.T, c.r, sigma)

\* sigma + diff / vega on the volatility grid (hundredths), vega # 0.
NewtonUpdate(sigma, market_price, price, vega) ==
    sigma + (100 * (market_price - price)) \div vega

\* The bounds check with the cap alone.
CapSigma(sigma_new) == Min(SIGMA_CAP, sigma_new)

\* sigma_new = max(0.01, min(5.0, sigma_new))
ClampSigma(sigma_new) == Max(SIGMA_FLOOR, Min(SIGMA_CAP, sigma_new))

\* A guard that never stops the loop.
GuardNever(vega) == FALSE

\* abs(vega) < 1e-10: on the grid, a vega of 0.
VegaBelowGuard(vega) == Abs(vega) = 0

\* diff / vega raises when vega is 0.0.
NewtonRaises(vega) == IF vega = 0 THEN "ZeroDivisionError" ELSE NoError

\* |sigma_new - sigma| < 1e-6: on the grid, no change at all.
Converged(sigma_new, sigma) == sigma_new = sigma

\* greeks.vega * 100 at sigma, or the exception calculate_greeks raises.
IVVegas(c, sigma) ==
    {[raised |-> g.raised, vega |-> IF g.raised = NoError THEN g.vega ELSE 0] :
        g \in calculate_greeks(c.S, c.K, c.T, c.r, sigma, c.option_type)}

\* The function is entered: T <= 0 returns 0.0, else the loop starts at 0.5.
\* iter counts the loop bodies started; exit records the way out.
IVEnter ==
    /\ call.name = "calculate_implied_volatility"
    /\ ret.pc = "called"
    /\ ret' = IF call.T <= 0
              THEN [pc |-> "done", raised |-> NoError, value |-> 0, iter |-> 0,
                    exit |-> "expired"]
              ELSE [pc |-> "loop", raised |-> NoError, sigma |-> INITIAL_SIGMA,
                    iter |-> 0]
    /\ UNCHANGED <<call, portfolio, bot>>

\* One loop body: price and vega at sigma, then the vega guard, the update,
\* the clamp and the convergence test.
IVIterate ==
    /\ call.name = "calculate_implied_volatility"
    /\ ret.pc = "loop"
    /\ RangeNotExhausted(ret.iter)
    /\ \E p \in IVPrices(call, ret.sigma), g \in IVVegas(call, ret.sigma) :
         IF p.raised # NoError \/ g.raised # NoError
         THEN ret' = [pc |-> "done",
                      raised |-> IF p.raised # NoError THEN p.raised ELSE g.raised,
                      iter |-> ret.iter + 1, exit |-> "raised"]
         ELSE IF VegaBelowGuard(g.vega)
         THEN ret' = [pc |-> "done", raised |-> NoError, value |-> ret.sigma,
                      iter |-> ret.iter + 1, exit |-> "vega"]
         ELSE IF NewtonRaises(g.vega) # NoError
         THEN ret' = [pc |-> "done", raised |-> NewtonRaises(g.vega),
                      iter |-> ret.iter + 1, exit |-> "raised"]
         ELSE LET sigma_new ==
                      ClampSigma(NewtonUpdate(ret.sigma, call.market_price,
                                              p.value, g.vega))
              IN  IF Converged(sigma_new, ret.sigma)
                  THEN ret' = [pc |-> "done", raised |-> NoError,
                               value |-> sigma_new, iter |-> ret.iter + 1,
                               exit |-> "converged"]
                  ELSE ret' = [pc |-> "loop", raised |-> NoError,
                               sigma |-> sigma_new, iter |-> ret.iter + 1]
    /\ UNCHANGED <<call, portfolio, bot>>

\* The range is exhausted: return sigma, converged or not.
IVExhausted ==
    /\ call.name = "calculate_implied_volatility"
    /\ ret.pc = "loop"
    /\ ~RangeNotExhausted(ret.iter)
    /\ ret' = [pc |-> "done", raised |-> NoError, value |-> ret.sigma,
               iter |-> ret.iter, exit |-> "exhausted"]
    /\ UNCHANGED <<call, portfolio, bot>>

IVCalls ==
    [name : {"calculate_implied_volatility"}, market_price : 0..MaxPrice,
     S : {1, MaxPrice}, K : {1, MaxPrice}, T : {0, 1}, r : {5},
     option_type : OptionTypes]

InitIV ==
    /\ call \in IVCalls
    /\ ret = Called
    /\ portfolio = EmptyPortfolio
    /\ bot = NewBot

NextIV == IVEnter \/ IVIterate \/ IVExhausted

\* The solver is synchronous code: once entered it runs on.
SpecIV == InitIV /\ [][NextIV]_vars /\ WF_vars(NextIV)

---------------------------------------------------------------------------
(* Exact fractions for the floats of the hedge search: [n, d] with d > 0   *)
(* and n, d coprime, so that equal values are equal records.               *)

RECURSIVE Gcd(_, _)
Gcd(a, b) == IF b = 0 THEN a ELSE Gcd(b, a % b)

Rat(n, d) ==
    LET g == Gcd(Abs(n), Abs(d))
        sign == IF d < 0 THEN -1 ELSE 1
    IN  [n |-> (sign * n) \div g, d |-> (sign * d) \div g]

RatInt(k) == [n |-> k, d |-> 1]

RatAdd(a, b) == Rat(a.n * b.d + b.n * a.d, a.d * b.d)

RatSub(a, b) == Rat(a.n * b.d - b.n * a.d, a.d * b.d)

RatMul(a, b) == Rat(a.n * b.n, a.d * b.d)

\* a / b with b # 0
RatDiv(a, b) == Rat(a.n * b.d, a.d * b.n)

RatNeg(a) == [n |-> -a.n, d |-> a.d]

RatAbs(a) == [n |-> Abs(a.n), d |-> a.d]

RatLess(a, b) == a.n * b.d < b.n * a.d

RatMin(a, b) == IF RatLess(b, a) THEN b ELSE a

RatIsZero(a) == a.n = 0

---------------------------------------------------------------------------
(* HedgeRecommender: find_optimal_hedge (options_pricing.py) and           *)
(* HedgeService (hedge.py).                                                *)

\* abs(hedge_required) < 0.01
HEDGE_TOLERANCE == Rat(1, 100)

\* abs(quantity) < 0.001
MIN_QUANTITY == Rat(1, 1000)

\* recommendations[:5]
TOP_N == 5

\* An OptionContract as the hedge code reads it; delta in thousandths,
\* prices in quote currency.
Contract(symbol, option_type, strike, delta_milli, bid, ask) ==
    [symbol |-> symbol, option_type |-> option_type, strike |-> strike,
     delta |-> Rat(delta_milli, 1000), bid |-> bid, ask |-> ask]

\* OptionContract.mid_price
mid_price(option) == Rat(option.bid + option.ask, 2)

\* The contracts an option chain is made of: ordinary puts and calls, a put
\* quoted with a positive delta, contracts with delta 0, a contract of
\* another kind, a call whose delta is far above 1, and a call without a
\* bid or an ask.
Pool ==
    << Contract("P110", "put", 110000, -400, 4900, 5100),
       Contract("C115", "call", 115000, 300, 2900, 3100),
       Contract("P100", "put", 100000, 0, 900, 1100),
       Contract("C120", "call", 120000, 200, 0, 0),
       Contract("F107", "future", 107000, 1000, 100, 100),
       Contract("P105", "put", 105000, 500, 1900, 2100),
       Contract("C125", "call", 125000, 0, 400, 600),
       Contract("C130", "call", 130000, 20000, 100, 300),
       Contract("P95", "put", 95000, -250, 1400, 1600),
       Contract("C135", "call", 135000, 100, 150, 250) >>

\* Longest option chain handed to the search.
MaxChain == 3

RECURSIVE SeqOfSet(_)
\* The members of an index set in increasing order.
SeqOfSet(I) ==
    IF I = {} THEN <<>>
    ELSE LET m == CHOOSE x \in I : \A y \in I : x <= y
         IN  <<m>> \o SeqOfSet(I \ {m})

Reverse(s) == [i \in 1..Len(s) |-> s[Len(s) + 1 - i]]

\* Option chains: the contracts of any at most MaxChain pool entries, in pool
\* order or reversed.
Chains ==
    LET picks == {I \in SUBSET (1..Len(Pool)) : Cardinality(I) <= MaxChain}
        inOrder == {[i \in 1..Cardinality(I) |-> Pool[SeqOfSet(I)[i]]] : I \in picks}
    IN  inOrder \cup {Reverse(c) : c \in inOrder}

\* The pool without the calls and puts whose delta is 0.
Tradable ==
    SelectSeq(Pool, LAMBDA o : o.option_type \in {"call", "put"} => ~RatIsZero(o.delta))

\* The i-th entry left out.
DropAt(s, i) == SubSeq(s, 1, i - 1) \o SubSeq(s, i + 1, Len(s))

\* Option chains with more usable contracts than the search returns: all
\* of Tradable or all but one, in pool order or reversed.
LongChains ==
    LET inOrder == {Tradable} \cup {DropAt(Tradable, i) : i \in 1..Len(Tradable)}
    IN  inOrder \cup {Reverse(c) : c \in inOrder}

\* How the float product quantity * option_delta of a contract lies to the
\* exact value hedge_required: below (-1), on it (0) or above (1).  Which
\* one it is depends on the bits of the operands; it is an input here.
ExactProducts == [symbol \in {Pool[i].symbol : i \in 1..Len(Pool)} |-> 0]

Roundings ==
    {ExactProducts,
     [ExactProducts EXCEPT !["P110"] = -1, !["C115"] = 1, !["C120"] = -1]}

\* The relative size of a rounding error.  A float's is 2^-53; only that
\* it is above 0 and far below the 0.01 and 0.001 thresholds matters.
ROUNDING_ERROR == Rat(1, 1000)

\* quantity * option_delta as the float multiplication returns it.
RoundedProduct(hedge_required, rounding) ==
    RatMul(hedge_required, RatAdd(RatInt(1), RatMul(RatInt(rounding), ROUNDING_ERROR)))

\* The ratio without its cap.
EffectivenessUncapped(product, hedge_required) ==
    RatDiv(RatAbs(product), RatAbs(hedge_required))

\* min(1.0, abs(quantity * option_delta) / abs(hedge_required))
Effectiveness(product, hedge_required) ==
    RatMin(RatInt(1), RatDiv(RatAbs(product), RatAbs(hedge_required)))

\* Portfolio and target deltas (thousandths), both sides of the tolerance.
DeltaGrid == {-500, -10, -9, 0, 5, 9, 10, 11, 500}

\* max_cost: None, 0 or a ceiling in quote currency.
NoMaxCost == [given |-> FALSE, value |-> RatInt(0)]

MaxCosts == {NoMaxCost} \cup {[given |-> TRUE, value |-> RatInt(v)] : v \in {0, 5000}}

\* Python truthiness of max_cost: None and 0 are false.
Truthy(max_cost) == max_cost.given /\ ~RatIsZero(max_cost.value)

\* option_delta as the loop body sets it: -abs(delta) for a put.
SignedDelta(option) ==
    IF option.option_type = "put" THEN RatNeg(RatAbs(option.delta)) ELSE option.delta

\* One candidate's recommendation record (lines 305-329), signed delta # 0;
\* "skip" when the loop body continues without appending.
Candidate(option, hedge_required, max_cost, rounding) ==
    LET option_delta == SignedDelta(option)
        quantity == RatDiv(hedge_required, option_delta)
        cost == RatMul(RatAbs(quantity), mid_price(option))
        product == RoundedProduct(hedge_required, rounding)
        effectiveness == Effectiveness(product, hedge_required)
    IN  IF RatLess(RatAbs(quantity), MIN_QUANTITY) THEN [skip |-> TRUE]
        ELSE IF Truthy(max_cost) /\ RatLess(max_cost.value, cost) THEN [skip |-> TRUE]
        ELSE [skip |-> FALSE,
              option |-> option,
              quantity |-> quantity,
              cost |-> cost,
              effectiveness |-> effectiveness,
              remaining_delta |-> RatSub(hedge_required, product)]

RECURSIVE ScanChain(_, _, _, _, _)
\* for option in option_chain (lines 296-329): the recommendations appended
\* so far, until the chain ends or a body raises; hedge_required /
\* option_delta raises ZeroDivisionError when the signed delta is 0.
ScanChain(option_chain, hedge_required, max_cost, roundings, recommendations) ==
    IF option_chain = <<>>
    THEN [raised |-> NoError, recommendations |-> recommendations]
    ELSE LET option == Head(option_chain)
             rest == Tail(option_chain)
         IN  IF option.option_type \notin {"call", "put"}
             THEN ScanChain(rest, hedge_required, max_cost, roundings, recommendations)
             ELSE IF RatIsZero(SignedDelta(option))
             THEN [raised |-> "ZeroDivisionError"]
             ELSE LET c == Candidate(option, hedge_required, max_cost,
                                     roundings[option.symbol])
                  IN  ScanChain(rest, hedge_required, max_cost, roundings,
                                IF c.skip THEN recommendations
                                ELSE Append(recommendations,
                                            [f \in DOMAIN c \ {"skip"} |-> c[f]]))

\* The sort key (-effectiveness, cost) of a before that of b.
KeyBefore(a, b) ==
    \/ RatLess(b.effectiveness, a.effectiveness)
    \/ a.effectiveness = b.effectiveness /\ RatLess(a.cost, b.cost)

RECURSIVE InsertSorted(_, _)
\* x placed after every entry it does not sort before (list.sort is stable).
InsertSorted(sorted, x) ==
    IF sorted = <<>> THEN <<x>>
    ELSE IF KeyBefore(x, Head(sorted)) THEN <<x>> \o sorted
    ELSE <<Head(sorted)>> \o InsertSorted(Tail(sorted), x)

\* The recommendations left in chain order.
ChainOrder(recs) == recs

RECURSIVE SortRecommendations(_)
\* recommendations.sort(key=lambda x: (-x["effectiveness"], x["cost"]))
SortRecommendations(recs) ==
    IF recs = <<>> THEN <<>>
    ELSE InsertSorted(SortRecommendations(SubSeq(recs, 1, Len(recs) - 1)),
                      recs[Len(recs)])

\* The tolerance test of find_optimal_hedge taken on hedge_required = 0 only.
WithinToleranceExact(hedge_required) == RatIsZero(hedge_required)

\* abs(hedge_required) < 0.01
WithinTolerance(hedge_required) == RatLess(RatAbs(hedge_required), HEDGE_TOLERANCE)

\* find_optimal_hedge(portfolio_delta, S, option_chain, target_delta, max_cost):
\* the list returned, or the exception raised.  S is not read; roundings
\* tells how each float product rounds.
find_optimal_hedge(portfolio_delta, option_chain, target_delta, max_cost, roundings) ==
    LET hedge_required == RatSub(target_delta, portfolio_delta)
    IN  IF WithinTolerance(hedge_required)
        THEN [raised |-> NoError, recommendations |-> <<>>]
        ELSE LET scan == ScanChain(option_chain, hedge_required, max_cost,
                                   roundings, <<>>)
             IN  IF scan.raised # NoError THEN scan
                 ELSE LET sorted == SortRecommendations(scan.recommendations)
                      IN  [raised |-> NoError,
                           recommendations |->
                               SubSeq(sorted, 1, Min(TOP_N, Len(sorted)))]

\* find_optimal_hedge runs to its return or its exception.
FindOptimalHedge ==
    /\ call.name = "find_optimal_hedge"
    /\ ret.pc = "called"
    /\ ret' = [pc |-> "done"] @@
              find_optimal_hedge(call.portfolio_delta, call.option_chain,
                                 call.target_delta, call.max_cost, call.roundings)
    /\ UNCHANGED <<call, portfolio, bot>>

---------------------------------------------------------------------------
(* HedgeService: src/src/services/hedge.py                                 *)

\* current_price = 107000
CURRENT_PRICE == 107000

NoContract == [symbol |-> "None"]

\* [opt for opt in option_chain if opt.option_type == kind]
OfType(option_chain, kind) == SelectSeq(option_chain, LAMBDA o : o.option_type = kind)

\* min(options, key=...) over integer keys: the first entry with the least key.
MinByStrikeDistance(options, centre) ==
    LET i == CHOOSE i \in 1..Len(options) :
                 /\ \A j \in 1..Len(options) :
                        Abs(options[i].strike - centre) <= Abs(options[j].strike - centre)
                 /\ \A j \in 1..(i - 1) :
                        Abs(options[j].strike - centre) > Abs(options[i].strike - centre)
    IN  options[i]

MinByStrike(options) ==
    LET i == CHOOSE i \in 1..Len(options) :
                 /\ \A j \in 1..Len(options) : options[i].strike <= options[j].strike
                 /\ \A j \in 1..(i - 1) : options[j].strike > options[i].strike
    IN  options[i]

\* [opt for opt in call_options if opt.strike > current_price * num / den]
OtmCalls(call_options, num, den) ==
    SelectSeq(call_options, LAMBDA o : o.strike * den > CURRENT_PRICE * num)

\* The perpetual delta-neutral recommendation (lines 74-93).
PerpRecommendation(portfolio_delta) ==
    LET hedge_qty == RatNeg(portfolio_delta)
    IN  [hedge_type |-> "perp_delta_neutral",
         symbol |-> "BTC-USDT-PERP",
         quantity |-> RatAbs(hedge_qty),
         direction |-> IF RatLess(hedge_qty, RatInt(0)) THEN "short" ELSE "long",
         target_delta |-> RatInt(0),
         estimated_cost |->
             RatMul(RatMul(RatAbs(hedge_qty), RatInt(CURRENT_PRICE)), Rat(5, 10000)),
         risk_reduction |->
             RatMul(RatMul(RatAbs(portfolio_delta), RatInt(CURRENT_PRICE)), Rat(1, 10)),
         option_contract |-> NoContract]

\* The protective put (lines 98-121): put_options is not empty.
ProtectivePut(portfolio_delta, put_options) ==
    LET best_put == MinByStrikeDistance(put_options, CURRENT_PRICE)
        target_delta == RatMul(portfolio_delta, Rat(5, 10))
        hedge_delta == RatSub(portfolio_delta, target_delta)
    IN  IF RatIsZero(best_put.delta) THEN [raised |-> "ZeroDivisionError"]
        ELSE LET put_quantity == RatDiv(hedge_delta, RatAbs(best_put.delta))
             IN  [raised |-> NoError,
                  rec |-> [hedge_type |-> "protective_put",
                           symbol |-> best_put.symbol,
                           quantity |-> put_quantity,
                           direction |-> "buy",
                           target_delta |-> target_delta,
                           estimated_cost |-> RatMul(put_quantity, mid_price(best_put)),
                           risk_reduction |->
                               RatMul(RatMul(hedge_delta, RatInt(CURRENT_PRICE)),
                                      Rat(15, 100)),
                           option_contract |-> best_put]]

\* The covered call (lines 124-152): otm_calls is not empty.
CoveredCall(portfolio_delta, otm_calls) ==
    LET best_call == MinByStrike(otm_calls)
        target_delta == RatMul(portfolio_delta, Rat(7, 10))
        hedge_delta == RatSub(portfolio_delta, target_delta)
    IN  IF RatIsZero(best_call.delta) THEN [raised |-> "ZeroDivisionError"]
        ELSE LET call_quantity == RatDiv(hedge_delta, best_call.delta)
             IN  [raised |-> NoError,
                  rec |-> [hedge_type |-> "covered_call",
                           symbol |-> best_call.symbol,
                           quantity |-> call_quantity,
                           direction |-> "sell",
                           target_delta |-> target_delta,
                           estimated_cost |->
                               RatMul(RatNeg(call_quantity), mid_price(best_call)),
                           risk_reduction |->
                               RatMul(RatMul(hedge_delta, RatInt(CURRENT_PRICE)),
                                      Rat(8, 100)),
                           option_contract |-> best_call]]

\* The collar (lines 155-188): put_options and otm_calls are not empty.
Collar(portfolio_delta, put_options, otm_calls) ==
    LET best_put == MinByStrikeDistance(put_options, (CURRENT_PRICE * 95) \div 100)
        best_call == MinByStrike(otm_calls)
    IN  IF RatIsZero(best_put.delta) \/ RatIsZero(best_call.delta)
        THEN [raised |-> "ZeroDivisionError"]
        ELSE LET put_quantity == RatDiv(portfolio_delta, RatAbs(best_put.delta))
                 call_quantity == RatDiv(portfolio_delta, best_call.delta)
                 net_cost == RatSub(RatMul(put_quantity, mid_price(best_put)),
                                    RatMul(call_quantity, mid_price(best_call)))
             IN  [raised |-> NoError,
                  rec |-> [hedge_type |-> "collar",
                           symbol |-> <<best_put.symbol, " + ", best_call.symbol>>,
                           quantity |-> RatMin(put_quantity, call_quantity),
                           direction |-> "buy_put_sell_call",
                           target_delta |-> RatMul(portfolio_delta, Rat(3, 10)),
                           estimated_cost |-> net_cost,
                           risk_reduction |->
                               RatMul(RatMul(portfolio_delta, RatInt(CURRENT_PRICE)),
                                      Rat(20, 100)),
                           option_contract |-> best_put]]

\* abs(portfolio_delta) < 0.01
AlreadyNeutral(portfolio_delta) == RatLess(RatAbs(portfolio_delta), HEDGE_TOLERANCE)

\* calculate_hedge_recommendations(portfolio_delta, positions, option_chain):
\* the list returned, or the exception raised.  positions is not read; the
\* description strings are left out.
calculate_hedge_recommendations(portfolio_delta, option_chain) ==
    IF AlreadyNeutral(portfolio_delta)
    THEN [raised |-> NoError, recommendations |-> <<>>]
    ELSE
    LET perp == <<PerpRecommendation(portfolio_delta)>>
        put_options == OfType(option_chain, "put")
        call_options == OfType(option_chain, "call")
        otm5 == OtmCalls(call_options, 105, 100)
        otm10 == OtmCalls(call_options, 110, 100)
        put == IF put_options # <<>>
               THEN ProtectivePut(portfolio_delta, put_options)
               ELSE [raised |-> NoError]
        covered == IF otm5 # <<>>
                   THEN CoveredCall(portfolio_delta, otm5)
                   ELSE [raised |-> NoError]
        collar == IF put_options # <<>> /\ otm10 # <<>>
                  THEN Collar(portfolio_delta, put_options, otm10)
                  ELSE [raised |-> NoError]
        Rec(r) == IF "rec" \in DOMAIN r THEN <<r.rec>> ELSE <<>>
    IN  IF ~(option_chain # <<>> /\ RatLess(HEDGE_TOLERANCE, portfolio_delta))
        THEN [raised |-> NoError, recommendations |-> perp]
        ELSE IF put.raised # NoError THEN [raised |-> put.raised]
        ELSE IF covered.raised # NoError THEN [raised |-> covered.raised]
        ELSE IF collar.raised # NoError THEN [raised |-> collar.raised]
        ELSE [raised |-> NoError,
              recommendations |-> perp \o Rec(put) \o Rec(covered) \o Rec(collar)]

\* calculate_hedge_recommendations runs to its return or its exception.
CalculateHedgeRecommendations ==
    /\ call.name = "calculate_hedge_recommendations"
    /\ ret.pc = "called"
    /\ ret' = [pc |-> "done"] @@
              calculate_hedge_recommendations(call.portfolio_delta, call.option_chain)
    /\ UNCHANGED <<call, portfolio, bot>>

\* One HedgeRecommendation of get_dynamic_hedge_recommendation (lines
\* 361-387), built from a record find_optimal_hedge returned.
DynamicRecommendation(rec_data, target_delta) ==
    LET option == rec_data.option
        is_put == option.option_type = "put"
    IN  [hedge_type |-> IF is_put THEN "protective_put" ELSE "covered_call",
         symbol |-> option.symbol,
         quantity |-> RatAbs(rec_data.quantity),
         direction |-> IF is_put THEN "buy" ELSE "sell",
         target_delta |-> target_delta,
         estimated_cost |-> rec_data.cost,
         risk_reduction |->
             RatMul(RatMul(RatAbs(RatMul(rec_data.quantity, option.delta)),
                           RatInt(CURRENT_PRICE)),
                    Rat(1, 10)),
         option_contract |-> option]

\* HedgeService.get_dynamic_hedge_recommendation(portfolio_delta,
\* option_chain, target_delta, max_cost): the list returned, or the
\* exception find_optimal_hedge raised.
get_dynamic_hedge_recommendation(portfolio_delta, option_chain, target_delta, max_cost, roundings) ==
    IF option_chain = <<>>
    THEN [raised |-> NoError, recommendations |-> <<>>]
    ELSE LET found == find_optimal_hedge(portfolio_delta, option_chain,
                                         target_delta, max_cost, roundings)
         IN  IF found.raised # NoError THEN found
             ELSE [raised |-> NoError,
                   recommendations |->
                       [i \in 1..Len(found.recommendations) |->
                           DynamicRecommendation(found.recommendations[i],
                                                 target_delta)]]

\* get_dynamic_hedge_recommendation runs to its return or its exception.
GetDynamicHedgeRecommendation ==
    /\ call.name = "get_dynamic_hedge_recommendation"
    /\ ret.pc = "called"
    /\ ret' = [pc |-> "done"] @@
              get_dynamic_hedge_recommendation(call.portfolio_delta,
                                               call.option_chain,
                                               call.target_delta, call.max_cost,
                                               call.roundings)
    /\ UNCHANGED <<call, portfolio, bot>>

\* Long and short portfolios, hedged to flat or to a target.
DynamicHedgeCalls ==
    [name : {"get_dynamic_hedge_recommendation"},
     portfolio_delta : {Rat(x, 1000) : x \in {-500, -9, 500}},
     target_delta : {Rat(x, 1000) : x \in {0, 5}},
     option_chain : Chains,
     max_cost : {NoMaxCost},
     roundings : {ExactProducts}]

FindOptimalHedgeCalls ==
    [name : {"find_optimal_hedge"},
     portfolio_delta : {Rat(x, 1000) : x \in DeltaGrid},
     target_delta : {Rat(x, 1000) : x \in {0, 5, 500}},
     option_chain : Chains \cup LongChains,
     max_cost : MaxCosts,
     roundings : Roundings]

HedgeRecommendationCalls ==
    [name : {"calculate_hedge_recommendations"},
     portfolio_delta : {Rat(x, 1000) : x \in DeltaGrid},
     option_chain : Chains]

InitHedge ==
    /\ call \in FindOptimalHedgeCalls \cup HedgeRecommendationCalls
                \cup DynamicHedgeCalls
    /\ ret = Called
    /\ portfolio = EmptyPortfolio
    /\ bot = NewBot

NextHedge ==
    FindOptimalHedge \/ CalculateHedgeRecommendations \/ GetDynamicHedgeRecommendation

SpecHedge == InitHedge /\ [][NextHedge]_vars

---------------------------------------------------------------------------
(* StrategyBuilder: src/src/options/strategies.py                          *)
(* Strikes, premiums and prices are whole quote-currency amounts; the leg  *)
(* Greeks are in hundredths.                                               *)

\* Strikes are 1000, 2000, ..., 1000 * MaxStrike.
MaxStrike == 5

\* Premiums are 0, 500, ..., 500 * MaxPremium.
MaxPremium == 2

Strikes == {1000 * k : k \in 1..MaxStrike}

Premiums == {500 * k : k \in 0..MaxPremium}

\* Underlying prices from below the lowest strike to above the highest.
CurrentPrices == {500 * k : k \in 0..(2 * MaxStrike + 2)}

\* The step of the payoff grid: range(..., ..., 1000)
PAYOFF_STEP == 1000

\* float("inf")
Infinity == "inf"

\* range(start, stop, PAYOFF_STEP) as a set
PayoffRange(start, stop) ==
    IF stop <= start THEN {}
    ELSE {start + PAYOFF_STEP * i : i \in 0..((stop - start - 1) \div PAYOFF_STEP)}

\* int(x * num / 10) for x >= 0
IntScaled(x, num) == (x * num) \div 10

OptionLeg(symbol, qty, strike, option_type, price, delta, gamma, theta, vega) ==
    [symbol |-> symbol, qty |-> qty, strike |-> strike, expiry |-> "25JUL25",
     option_type |-> option_type, price |-> price,
     delta |-> delta, gamma |-> gamma, theta |-> theta, vega |-> vega]

\* A leg built without Greeks: the dataclass defaults 0.0.
PlainLeg(symbol, qty, strike, option_type, price) ==
    OptionLeg(symbol, qty, strike, option_type, price, 0, 0, 0, 0)

\* The loop body of straddle (lines 108-110).
StraddlePayoffAt(strike, total_cost, price) ==
    Max(0, price - strike) + Max(0, strike - price) - total_cost

\* Current P&L of straddle (lines 114-116).
StraddleCurrentPnl(strike, total_cost, current_price) ==
    Max(0, current_price - strike) + Max(0, strike - current_price) - total_cost

\* max_loss of straddle taken as the premium, unsigned.
StraddleMaxLossUnsigned(total_cost) == total_cost

\* max_loss = -total_cost
StraddleMaxLoss(total_cost) == -total_cost

\* straddle(strike, call_price, put_price, current_price), default Greeks.
straddle(strike, call_price, put_price, current_price) ==
    LET call_leg == OptionLeg(<<"BTC", strike, "C">>, 1, strike, "call",
                              call_price, 50, 2, -10, 80)
        put_leg == OptionLeg(<<"BTC", strike, "P">>, 1, strike, "put",
                             put_price, -50, 2, -10, 80)
        total_cost == call_price + put_price
        breakeven_high == strike + total_cost
        breakeven_low == strike - total_cost
        grid == PayoffRange(IntScaled(strike, 7), IntScaled(strike, 13) + 1)
    IN  [legs |-> <<call_leg, put_leg>>,
         payoff |->
            [max_profit |-> Infinity,
             max_loss |-> StraddleMaxLoss(total_cost),
             breakeven_points |-> <<breakeven_low, breakeven_high>>,
             payoff_at_expiry |->
                 [price \in grid |-> StraddlePayoffAt(strike, total_cost, price)],
             current_pnl |-> StraddleCurrentPnl(strike, total_cost, current_price),
             margin_required |-> total_cost]]

\* The loop body of butterfly (lines 203-212).
ButterflyPayoffAt(lower_strike, middle_strike, upper_strike, total_cost, is_call_butterfly, price) ==
    LET lower_payoff == IF is_call_butterfly THEN Max(0, price - lower_strike)
                        ELSE Max(0, lower_strike - price)
        middle_payoff == IF is_call_butterfly THEN -2 * Max(0, price - middle_strike)
                         ELSE -2 * Max(0, middle_strike - price)
        upper_payoff == IF is_call_butterfly THEN Max(0, price - upper_strike)
                        ELSE Max(0, upper_strike - price)
    IN  lower_payoff + middle_payoff + upper_payoff - total_cost

\* Current P&L of butterfly (lines 216-230).
ButterflyCurrentPnl(lower_strike, middle_strike, upper_strike, total_cost, is_call_butterfly, current_price) ==
    LET current_lower_value ==
            IF is_call_butterfly THEN Max(0, current_price - lower_strike)
            ELSE Max(0, lower_strike - current_price)
        current_middle_value ==
            IF is_call_butterfly THEN -2 * Max(0, current_price - middle_strike)
            ELSE -2 * Max(0, middle_strike - current_price)
        current_upper_value ==
            IF is_call_butterfly THEN Max(0, current_price - upper_strike)
            ELSE Max(0, upper_strike - current_price)
    IN  current_lower_value + current_middle_value + current_upper_value - total_cost

\* max_profit of butterfly measured over both wings.
ButterflyMaxProfitFullWidth(lower_strike, middle_strike, upper_strike, total_cost) ==
    upper_strike - lower_strike - total_cost

\* max_profit = middle_strike - lower_strike - total_cost
ButterflyMaxProfit(lower_strike, middle_strike, upper_strike, total_cost) ==
    middle_strike - lower_strike - total_cost

\* butterfly(lower_strike, middle_strike, upper_strike, lower_call_price,
\*           middle_call_price, upper_call_price, current_price, is_call_butterfly)
butterfly(lower_strike, middle_strike, upper_strike, lower_call_price, middle_call_price, upper_call_price, current_price, is_call_butterfly) ==
    LET option_type == IF is_call_butterfly THEN "call" ELSE "put"
        letter == IF is_call_butterfly THEN "C" ELSE "P"
        lower_leg == PlainLeg(<<"BTC", lower_strike, letter>>, 1, lower_strike,
                              option_type, lower_call_price)
        middle_leg == PlainLeg(<<"BTC", middle_strike, letter>>, -2, middle_strike,
                               option_type, middle_call_price)
        upper_leg == PlainLeg(<<"BTC", upper_strike, letter>>, 1, upper_strike,
                              option_type, upper_call_price)
        total_cost == lower_call_price - 2 * middle_call_price + upper_call_price
        grid == PayoffRange(IntScaled(lower_strike, 8), IntScaled(upper_strike, 12) + 1)
    IN  [legs |-> <<lower_leg, middle_leg, upper_leg>>,
         payoff |->
            [max_profit |-> ButterflyMaxProfit(lower_strike, middle_strike,
                                               upper_strike, total_cost),
             max_loss |-> total_cost,
             breakeven_points |-> <<lower_strike + total_cost, upper_strike - total_cost>>,
             payoff_at_expiry |->
                 [price \in grid |->
                     ButterflyPayoffAt(lower_strike, middle_strike, upper_strike,
                                       total_cost, is_call_butterfly, price)],
             current_pnl |-> ButterflyCurrentPnl(lower_strike, middle_strike,
                                                 upper_strike, total_cost,
                                                 is_call_butterfly, current_price),
             margin_required |-> total_cost]]

\* The loop body of iron_condor with the premium subtracted, not added.
CondorPayoffAtDebit(put_lower_strike, put_upper_strike, call_lower_strike, call_upper_strike, net_credit, price) ==
    - Max(0, put_lower_strike - price) + Max(0, put_upper_strike - price)
    - Max(0, price - call_lower_strike) + Max(0, price - call_upper_strike)
    - net_credit

\* The loop body of iron_condor (lines 333-346).
CondorPayoffAt(put_lower_strike, put_upper_strike, call_lower_strike, call_upper_strike, net_credit, price) ==
    LET put_lower_payoff == -Max(0, put_lower_strike - price)
        put_upper_payoff == Max(0, put_upper_strike - price)
        call_lower_payoff == -Max(0, price - call_lower_strike)
        call_upper_payoff == Max(0, price - call_upper_strike)
    IN  put_lower_payoff + put_upper_payoff + call_lower_payoff + call_upper_payoff
        + net_credit

\* Current P&L of iron_condor (lines 350-361).
CondorCurrentPnl(put_lower_strike, put_upper_strike, call_lower_strike, call_upper_strike, net_credit, current_price) ==
    LET current_put_lower_value == -Max(0, put_lower_strike - current_price)
        current_put_upper_value == Max(0, put_upper_strike - current_price)
        current_call_lower_value == -Max(0, current_price - call_lower_strike)
        current_call_upper_value == Max(0, current_price - call_upper_strike)
    IN  current_put_lower_value + current_put_upper_value
        + current_call_lower_value + current_call_upper_value + net_credit

\* iron_condor(put_lower_strike, put_upper_strike, call_lower_strike,
\*             call_upper_strike, put_lower_price, put_upper_price,
\*             call_lower_price, call_upper_price, current_price)
iron_condor(put_lower_strike, put_upper_strike, call_lower_strike, call_upper_strike, put_lower_price, put_upper_price, call_lower_price, call_upper_price, current_price) ==
    LET put_lower_leg == PlainLeg(<<"BTC", put_lower_strike, "P">>, -1,
                                  put_lower_strike, "put", put_lower_price)
        put_upper_leg == PlainLeg(<<"BTC", put_upper_strike, "P">>, 1,
                                  put_upper_strike, "put", put_upper_price)
        call_lower_leg == PlainLeg(<<"BTC", call_lower_strike, "C">>, -1,
                                   call_lower_strike, "call", call_lower_price)
        call_upper_leg == PlainLeg(<<"BTC", call_upper_strike, "C">>, 1,
                                   call_upper_strike, "call", call_upper_price)
        net_credit == put_lower_price - put_upper_price
                      + call_lower_price - call_upper_price
        max_loss_put_side == put_upper_strike - put_lower_strike - net_credit
        max_loss_call_side == call_upper_strike - call_lower_strike - net_credit
        grid == PayoffRange(IntScaled(put_lower_strike, 8),
                            IntScaled(call_upper_strike, 12) + 1)
    IN  [legs |-> <<put_lower_leg, put_upper_leg, call_lower_leg, call_upper_leg>>,
         payoff |->
            [max_profit |-> net_credit,
             max_loss |-> Max(max_loss_put_side, max_loss_call_side),
             breakeven_points |->
                 <<put_lower_strike + net_credit, call_lower_strike - net_credit>>,
             payoff_at_expiry |->
                 [price \in grid |->
                     CondorPayoffAt(put_lower_strike, put_upper_strike,
                                    call_lower_strike, call_upper_strike,
                                    net_credit, price)],
             current_pnl |-> CondorCurrentPnl(put_lower_strike, put_upper_strike,
                                              call_lower_strike, call_upper_strike,
                                              net_credit, current_price),
             margin_required |-> net_credit]]

\* straddle returns.
Straddle ==
    /\ call.name = "straddle"
    /\ ret.pc = "called"
    /\ ret' = [pc |-> "done", raised |-> NoError] @@
              straddle(call.strike, call.call_price, call.put_price, call.current_price)
    /\ UNCHANGED <<call, portfolio, bot>>

\* butterfly returns.
Butterfly ==
    /\ call.name = "butterfly"
    /\ ret.pc = "called"
    /\ ret' = [pc |-> "done", raised |-> NoError] @@
              butterfly(call.lower_strike, call.middle_strike, call.upper_strike,
                        call.lower_call_price, call.middle_call_price,
                        call.upper_call_price, call.current_price,
                        call.is_call_butterfly)
    /\ UNCHANGED <<call, portfolio, bot>>

\* iron_condor returns.
IronCondor ==
    /\ call.name = "iron_condor"
    /\ ret.pc = "called"
    /\ ret' = [pc |-> "done", raised |-> NoError] @@
              iron_condor(call.put_lower_strike, call.put_upper_strike,
                          call.call_lower_strike, call.call_upper_strike,
                          call.put_lower_price, call.put_upper_price,
                          call.call_lower_price, call.call_upper_price,
                          call.current_price)
    /\ UNCHANGED <<call, portfolio, bot>>

StraddleCalls ==
    [name : {"straddle"}, strike : Strikes, call_price : Premiums,
     put_price : Premiums, current_price : CurrentPrices]

\* Butterflies with lower < middle < upper, evenly spaced or not.
ButterflyCalls ==
    {c \in [name : {"butterfly"}, lower_strike : Strikes, middle_strike : Strikes,
            upper_strike : Strikes, lower_call_price : Premiums,
            middle_call_price : Premiums, upper_call_price : Premiums,
            current_price : CurrentPrices, is_call_butterfly : BOOLEAN] :
        c.lower_strike < c.middle_strike /\ c.middle_strike < c.upper_strike}

\* Iron condors with the documented strike order.
CondorCalls ==
    {c \in [name : {"iron_condor"}, put_lower_strike : Strikes,
            put_upper_strike : Strikes, call_lower_strike : Strikes,
            call_upper_strike : Strikes, put_lower_price : Premiums,
            put_upper_price : Premiums, call_lower_price : Premiums,
            call_upper_price : Premiums, current_price : CurrentPrices] :
        /\ c.put_lower_strike < c.put_upper_strike
        /\ c.put_upper_strike < c.call_lower_strike
        /\ c.call_lower_strike < c.call_upper_strike}

InitStrategy ==
    /\ call \in StraddleCalls \cup ButterflyCalls \cup CondorCalls
    /\ ret = Called
    /\ portfolio = EmptyPortfolio
    /\ bot = NewBot

NextStrategy == Straddle \/ Butterfly \/ IronCondor

SpecStrategy == InitStrategy /\ [][NextStrategy]_vars

---------------------------------------------------------------------------
(* Portfolio: src/src/portfolio/state.py                                   *)
(* Quantities and fill prices are whole numbers; average prices, deltas    *)
(* and risk figures are exact fractions.  Exchange names, transaction ids  *)
(* and timestamps are stored and never read: they are left out.            *)

\* Most update_fill calls made on one Portfolio.
MaxFills == 2

\* A symbol is kept as the list symbol.split("-") returns, each part being
\* the sequence of its characters.
BTC == <<"B", "T", "C">>

USDT == <<"U", "S", "D", "T">>

SPOT == <<"S", "P", "O", "T">>

PERP == <<"P", "E", "R", "P">>

\* Expiry labels, as in BTC-11JUL25-113000-P.
JUL25 == <<"1", "1", "J", "U", "L", "2", "5">>

SEP25 == <<"2", "6", "S", "E", "P", "2", "5">>

STRIKE_113000 == <<"1", "1", "3", "0", "0", "0">>

\* "BTC-USDT-SPOT", the key of the underlying price in current_prices.
BTC_USDT_SPOT == <<BTC, USDT, SPOT>>

BTC_USDT_PERP == <<BTC, USDT, PERP>>

\* An option symbol UNDERLYING-EXPIRY-STRIKE-KIND, KIND being "P" or "C".
OptionSymbol(expiry, strike, kind) == <<BTC, expiry, strike, <<kind>>>>

\* ch in symbol ("-" is neither "P" nor "C")
Contains(symbol, ch) ==
    \E i \in 1..Len(symbol) : \E j \in 1..Len(symbol[i]) : symbol[i][j] = ch

Digits == <<"0", "1", "2", "3", "4", "5", "6", "7", "8", "9">>

DigitValue(ch) == (CHOOSE i \in 1..10 : Digits[i] = ch) - 1

\* float(text) raises ValueError on the empty string and on the letters of
\* the symbols; the parts of a symbol carry no sign, point or exponent.
FloatRaises(text) ==
    \/ text = <<>>
    \/ \E i \in 1..Len(text) : \A d \in 1..10 : Digits[d] # text[i]

RECURSIVE FloatOf(_)
\* float(text) of a string of digits
FloatOf(text) ==
    IF text = <<>> THEN 0
    ELSE 10 * FloatOf(SubSeq(text, 1, Len(text) - 1)) + DigitValue(text[Len(text)])

\* The instruments traded: symbol and instrument_type as the callers pair
\* them.
Instruments ==
    {[symbol |-> BTC_USDT_SPOT, instrument_type |-> "spot"],
     [symbol |-> BTC_USDT_PERP, instrument_type |-> "perpetual"],
     [symbol |-> OptionSymbol(JUL25, STRIKE_113000, "P"), instrument_type |-> "option"],
     [symbol |-> OptionSymbol(JUL25, STRIKE_113000, "C"), instrument_type |-> "option"],
     [symbol |-> OptionSymbol(SEP25, STRIKE_113000, "C"), instrument_type |-> "option"]}

\* The fills applied: buys and sells of different sizes, at a low and at a
\* high price.
Fills ==
    {[qty |-> 1, price |-> 100], [qty |-> 2, price |-> 300],
     [qty |-> -1, price |-> 100], [qty |-> -1, price |-> 300]}

\* The pnl of a transaction that closed nothing: None.
NoPnl == [given |-> FALSE, value |-> RatInt(0)]

\* dict[key] = value
DictSet(dict, key, value) ==
    [k \in DOMAIN dict \cup {key} |-> IF k = key THEN value ELSE dict[k]]

\* dict.pop(key, None)
DictPop(dict, key) == [k \in DOMAIN dict \ {key} |-> dict[k]]

\* A removal that leaves the position where it is.
remove_nothing(positions, symbol) == positions

\* Portfolio.remove_position: self.positions.pop(symbol, None)
remove_position(positions, symbol) == DictPop(positions, symbol)

\* The notes update_fill attaches to the transaction (lines 232-243).
FillNotes(symbol, instrument_type) ==
    IF instrument_type = "option"
    THEN (IF Contains(symbol, "P") THEN "Put option"
          ELSE IF Contains(symbol, "C") THEN "Call option"
          ELSE "Option")
    ELSE IF instrument_type = "perpetual" THEN "Perpetual"
    ELSE IF instrument_type = "spot" THEN "Spot"
    ELSE "None"

\* The transaction type update_fill chooses (lines 221-229).
FillTransactionType(positions, symbol, qty) ==
    IF symbol \notin DOMAIN positions
    THEN (IF qty > 0 THEN "add" ELSE "hedge")
    ELSE IF positions[symbol].qty + qty = 0
    THEN (IF qty < 0 THEN "remove" ELSE "sell")
    ELSE (IF qty > 0 THEN "buy" ELSE "sell")

\* Portfolio.update_fill(symbol, qty, price, instrument_type, exchange): the
\* portfolio it leaves.  The transaction is recorded first; a closing fill
\* writes the realized P&L on it and removes the position, any other fill
\* stores the position with the new quantity and average price.
update_fill(self, symbol, qty, price, instrument_type) ==
    LET positions == self.positions
        transaction ==
            [symbol |-> symbol, qty |-> qty, price |-> price,
             instrument_type |-> instrument_type,
             transaction_type |-> FillTransactionType(positions, symbol, qty),
             pnl |-> NoPnl,
             notes |-> FillNotes(symbol, instrument_type)]
    IN  IF symbol \in DOMAIN positions
        THEN LET existing == positions[symbol]
                 total_qty == existing.qty + qty
             IN  IF total_qty = 0
                 THEN LET realized_pnl ==
                              RatMul(RatSub(RatInt(price), existing.avg_px),
                                     RatInt(Abs(qty)))
                      IN  [positions |-> remove_position(positions, symbol),
                           transactions |->
                               Append(self.transactions,
                                      [transaction EXCEPT
                                           !.pnl = [given |-> TRUE,
                                                    value |-> realized_pnl]])]
                 ELSE LET total_cost ==
                              RatAdd(RatMul(RatInt(existing.qty), existing.avg_px),
                                     RatInt(qty * price))
                          new_avg_px == RatDiv(total_cost, RatInt(total_qty))
                      IN  [positions |->
                               DictSet(positions, symbol,
                                       [symbol |-> symbol, qty |-> total_qty,
                                        avg_px |-> new_avg_px,
                                        instrument_type |-> instrument_type]),
                           transactions |-> Append(self.transactions, transaction)]
        ELSE [positions |->
                  DictSet(positions, symbol,
                          [symbol |-> symbol, qty |-> qty, avg_px |-> RatInt(price),
                           instrument_type |-> instrument_type]),
              transactions |-> Append(self.transactions, transaction)]

\* current_price = 111372.0, the fallback of the option delta (line 366)
FALLBACK_PRICE == 111372

\* current_prices = None
NoPrices == [given |-> FALSE, prices |-> EmptyDict]

\* current_prices = {...}
PricesOf(dict) == [given |-> TRUE, prices |-> dict]

\* current_prices and key in current_prices
HasPrice(current_prices, key) ==
    current_prices.given /\ key \in DOMAIN current_prices.prices

\* A map that prices the underlying alone.
SpotAt(price) == PricesOf([k \in {BTC_USDT_SPOT} |-> price])

\* A map that prices the instruments themselves, one of them at 0 and one
\* below 0, and the underlying above the at-the-money bands.
InstrumentPrices ==
    PricesOf([k \in {BTC_USDT_SPOT, BTC_USDT_PERP,
                     OptionSymbol(JUL25, STRIKE_113000, "P"),
                     OptionSymbol(JUL25, STRIKE_113000, "C")} |->
                 IF k = BTC_USDT_SPOT THEN 120000
                 ELSE IF k = BTC_USDT_PERP THEN -200
                 ELSE IF k = OptionSymbol(JUL25, STRIKE_113000, "P") THEN 0
                 ELSE 500])

\* The price maps handed to get_total_delta: none (the fallback price is
\* inside the at-the-money band of the put and below that of the call), the
\* underlying below both bands, at the strike, and above both bands.
PriceMaps == {NoPrices, SpotAt(100000), SpotAt(113000), InstrumentPrices}

\* The price maps handed to the two VaR routines.
VarPriceMaps == {SpotAt(100000), InstrumentPrices}

\* The moneyness band of a put (lines 371-377), delta per unit.
PutBandDelta(current_price, strike) ==
    IF current_price > strike THEN Rat(-15, 100)
    ELSE IF 100 * current_price < 95 * strike THEN Rat(-85, 100)
    ELSE Rat(-50, 100)

\* The moneyness band of a call (lines 378-384), delta per unit.
CallBandDelta(current_price, strike) ==
    IF 100 * current_price > 105 * strike THEN Rat(85, 100)
    ELSE IF current_price < strike THEN Rat(15, 100)
    ELSE Rat(50, 100)

\* Portfolio._calculate_option_delta(position, current_prices).  A symbol
\* of fewer than three parts, a strike that float() rejects and a strike of
\* 0 (ZeroDivisionError, caught by the bare except) give position.qty.
calculate_option_delta(position, current_prices) ==
    LET parts == position.symbol
    IN  IF Len(parts) < 3 THEN RatInt(position.qty)
        ELSE IF FloatRaises(parts[3]) THEN RatInt(position.qty)
        ELSE LET strike == FloatOf(parts[3])
                 current_price ==
                     IF HasPrice(current_prices, BTC_USDT_SPOT)
                     THEN current_prices.prices[BTC_USDT_SPOT]
                     ELSE FALLBACK_PRICE
             IN  IF strike = 0 THEN RatInt(position.qty)
                 ELSE IF Contains(position.symbol, "P")
                 THEN RatMul(PutBandDelta(current_price, strike), RatInt(position.qty))
                 ELSE RatMul(CallBandDelta(current_price, strike), RatInt(position.qty))

\* The delta one position adds to the total (lines 330-339).
PositionDelta(position, current_prices) ==
    IF position.instrument_type = "spot" THEN RatInt(position.qty)
    ELSE IF position.instrument_type = "perpetual" THEN RatInt(position.qty)
    ELSE IF position.instrument_type = "option"
    THEN calculate_option_delta(position, current_prices)
    ELSE RatInt(0)

RECURSIVE SumValues(_)
\* sum(terms.values()), from 0.0
SumValues(terms) ==
    IF DOMAIN terms = {} THEN RatInt(0)
    ELSE LET k == CHOOSE x \in DOMAIN terms : TRUE
         IN  RatAdd(terms[k], SumValues(DictPop(terms, k)))

\* Portfolio.get_total_delta(current_prices)
get_total_delta(positions, current_prices) ==
    SumValues([k \in DOMAIN positions |-> PositionDelta(positions[k], current_prices)])

\* return total_notional * 0.02 (line 557)
VAR_FRACTION == Rat(2, 100)

\* The price get_var_95 values a position at: the current price of its
\* symbol if there is one, else its average price (lines 548-551).
VarPrice(position, current_prices) ==
    IF HasPrice(current_prices, position.symbol)
    THEN RatInt(current_prices.prices[position.symbol])
    ELSE position.avg_px

\* Notionals counted with their sign: abs() dropped.
SignedNotional(position, current_prices) ==
    RatMul(RatInt(position.qty), VarPrice(position, current_prices))

\* notional = abs(position.qty * current_price)
VarNotional(position, current_prices) ==
    RatAbs(RatMul(RatInt(position.qty), VarPrice(position, current_prices)))

\* Portfolio.get_var_95(current_prices)
get_var_95(positions, current_prices) ==
    RatMul(SumValues([k \in DOMAIN positions |->
                          VarNotional(positions[k], current_prices)]),
           VAR_FRACTION)

\* StressTesting._calculate_portfolio_var: daily_volatility * var_multiplier
\* = 0.20 / sqrt(252) * 1.645 = 0.0207250519..., kept to six decimals.
STRESS_VAR_FACTOR == Rat(20725, 1000000)

\* abs(position.get("qty", 0) * prices.get(symbol, 0))
StressNotional(position, prices) ==
    IF position.symbol \in DOMAIN prices
    THEN RatInt(Abs(position.qty * prices[position.symbol]))
    ELSE RatInt(0)

\* StressTesting._calculate_portfolio_var(portfolio_positions, prices), on
\* the positions of the portfolio as dicts; prices is a dict.
calculate_portfolio_var(portfolio_positions, prices) ==
    RatMul(SumValues([k \in DOMAIN portfolio_positions |->
                          StressNotional(portfolio_positions[k], prices)]),
           STRESS_VAR_FACTOR)

\* The calls made on a Portfolio and on its positions.
PortfolioCallNames ==
    {"Portfolio", "update_fill", "get_total_delta", "get_var_95",
     "_calculate_portfolio_var"}

\* A call that ran to its return.
DoneWith(value) == [pc |-> "done", raised |-> NoError, value |-> value]

\* update_fill is called and runs to its end.
UpdateFill ==
    /\ call.name \in PortfolioCallNames
    /\ Len(portfolio.transactions) < MaxFills
    /\ \E i \in Instruments, fill \in Fills :
          /\ call' = [name |-> "update_fill", symbol |-> i.symbol,
                      qty |-> fill.qty, price |-> fill.price,
                      instrument_type |-> i.instrument_type]
          /\ portfolio' = update_fill(portfolio, i.symbol, fill.qty, fill.price,
                                      i.instrument_type)
    /\ ret' = [pc |-> "done", raised |-> NoError]
    /\ UNCHANGED bot

\* get_total_delta is called and returns.
GetTotalDelta ==
    /\ call.name \in PortfolioCallNames
    /\ \E current_prices \in PriceMaps :
          /\ call' = [name |-> "get_total_delta", current_prices |-> current_prices]
          /\ ret' = DoneWith(get_total_delta(portfolio.positions, current_prices))
    /\ UNCHANGED <<portfolio, bot>>

\* get_var_95 is called and returns.
GetVar95 ==
    /\ call.name \in PortfolioCallNames
    /\ \E current_prices \in VarPriceMaps \cup {NoPrices} :
          /\ call' = [name |-> "get_var_95", current_prices |-> current_prices]
          /\ ret' = DoneWith(get_var_95(portfolio.positions, current_prices))
    /\ UNCHANGED <<portfolio, bot>>

\* The stress tester values the positions of the portfolio.
CalculatePortfolioVar ==
    /\ call.name \in PortfolioCallNames
    /\ \E current_prices \in VarPriceMaps :
          /\ call' = [name |-> "_calculate_portfolio_var",
                      current_prices |-> current_prices]
          /\ ret' = DoneWith(calculate_portfolio_var(portfolio.positions,
                                                     current_prices.prices))
    /\ UNCHANGED <<portfolio, bot>>

InitPortfolio ==
    /\ call = [name |-> "Portfolio"]
    /\ ret = [pc |-> "done", raised |-> NoError]
    /\ portfolio = EmptyPortfolio
    /\ bot = NewBot

NextPortfolio == UpdateFill \/ GetTotalDelta \/ GetVar95 \/ CalculatePortfolioVar

SpecPortfolio == InitPortfolio /\ [][NextPortfolio]_vars

---------------------------------------------------------------------------
(* Risk metrics: src/src/risk/metrics.py                                   *)
(* Positions are dicts in a list; here a symbol is only a key of prices.   *)

\* Longest list of positions handed to calculate_concentration_risk.
MaxPositions == 4

RiskSymbols ==
    <<"BTC-USDT-SPOT", "BTC-USDT-PERP", "ETH-USDT-SPOT", "BTC-11JUL25-113000-P",
      "BTC-11JUL25-113000-C", "SOL-USDT-SPOT">>

\* Long, flat and short; sizes differ.
RiskQuantities == {-2, 0, 3}

\* The lists of positions: one position per symbol, on the first symbols.
PositionLists ==
    UNION {{[i \in 1..n |-> [symbol |-> RiskSymbols[i], qty |-> q[i]]] :
                q \in [1..n -> RiskQuantities]} : n \in 0..MaxPositions}

\* The price maps: any of the symbols priced, above 0 or not.
RiskPrices ==
    UNION {[{RiskSymbols[i] : i \in I} -> {-5, 10}] : I \in SUBSET (1..MaxPositions)}

\* prices.get(symbol, 0.0)
PriceGet(prices, symbol) == IF symbol \in DOMAIN prices THEN prices[symbol] ELSE 0

RECURSIVE PositionSizes(_, _)
\* The notionals appended to position_sizes (lines 131-139), in list order:
\* those of the positions whose current price is above 0.
PositionSizes(positions, prices) ==
    IF positions = <<>> THEN <<>>
    ELSE LET position == Head(positions)
             current_price == PriceGet(prices, position.symbol)
             rest == PositionSizes(Tail(positions), prices)
         IN  IF current_price > 0
             THEN <<Abs(position.qty * current_price)>> \o rest
             ELSE rest

RECURSIVE SumSeq(_)
SumSeq(sizes) == IF sizes = <<>> THEN 0 ELSE Head(sizes) + SumSeq(Tail(sizes))

RECURSIVE InsertDescending(_, _)
InsertDescending(sorted, x) ==
    IF sorted = <<>> THEN <<x>>
    ELSE IF x > Head(sorted) THEN <<x>> \o sorted
    ELSE <<Head(sorted)>> \o InsertDescending(Tail(sorted), x)

\* position_sizes left in list order.
LeftUnsorted(sizes) == sizes

RECURSIVE SortBySize(_)
\* position_sizes.sort(key=lambda x: x[1], reverse=True)
SortBySize(sizes) ==
    IF sizes = <<>> THEN <<>>
    ELSE InsertDescending(SortBySize(SubSeq(sizes, 1, Len(sizes) - 1)),
                          sizes[Len(sizes)])

NoConcentration ==
    [largest_position_pct |-> RatInt(0), top_3_concentration |-> RatInt(0)]

\* calculate_concentration_risk(positions, prices)
calculate_concentration_risk(positions, prices) ==
    IF positions = <<>> THEN NoConcentration
    ELSE LET position_sizes == PositionSizes(positions, prices)
             total_notional == SumSeq(position_sizes)
         IN  IF total_notional = 0 THEN NoConcentration
             ELSE LET sorted == SortBySize(position_sizes)
                      top_3_notional == SumSeq(SubSeq(sorted, 1, Min(3, Len(sorted))))
                  IN  [largest_position_pct |->
                           RatMul(Rat(sorted[1], total_notional), RatInt(100)),
                       top_3_concentration |->
                           RatMul(Rat(top_3_notional, total_notional), RatInt(100))]

\* calculate_concentration_risk runs to its return.
CalculateConcentrationRisk ==
    /\ call.name = "calculate_concentration_risk"
    /\ ret.pc = "called"
    /\ ret' = DoneWith(calculate_concentration_risk(call.positions, call.prices))
    /\ UNCHANGED <<call, portfolio, bot>>

ConcentrationCalls ==
    [name : {"calculate_concentration_risk"}, positions : PositionLists,
     prices : RiskPrices]

InitRisk ==
    /\ call \in ConcentrationCalls
    /\ ret = Called
    /\ portfolio = EmptyPortfolio
    /\ bot = NewBot

NextRisk == CalculateConcentrationRisk

SpecRisk == InitRisk /\ [][NextRisk]_vars

---------------------------------------------------------------------------
(* DeribitOptionsExchange.get_option_ticker builds an OptionContract from  *)
(* the exchange's ticker data, and a consumer then reads its mid_price.    *)
(* The Greeks fields of the contract are computed from the symbol alone    *)
(* and are not carried; no quote or price depends on them.                 *)

\* A field of the ticker data that is None.
None == [is_none |-> TRUE, value |-> 0]

\* A field of the ticker data that holds a number.
Some(value) == [is_none |-> FALSE, value |-> value]

\* parts[2] of the symbol, as float() reads it.
TickerStrikes == {0, 50000, 113000}

\* parts[3] of the symbol.
TickerKinds == {"C", "P"}

\* ticker_data["last_price"]
LastPrices == {None, Some(0), Some(7)}

\* ticker_data.get("best_bid_price"), with None also for a missing key
BidQuotes == {None, Some(0), Some(40)}

\* ticker_data.get("best_ask_price"), with None also for a missing key
AskQuotes == {None, Some(0), Some(60)}

\* HTTP status of the ticker response
Statuses == {200, 503}

\* str.lower() on the last part of the symbol
Lower(letter) ==
    CASE letter = "C" -> "c"
      [] letter = "P" -> "p"
      [] OTHER -> letter

\* float(x or 0.0) for last_price; float(x) if x is not None else 0.0 for a
\* quote: None and 0 both give 0.0.
FloatOrZero(field) == IF field.is_none THEN 0 ELSE field.value

\* current_price after the fallback: the last price, or a share of the
\* strike when it is not positive.
FallbackLastPrice(current_price, option_type, strike) ==
    IF current_price <= 0
    THEN IF option_type = "put"
         THEN Rat(strike * 5, 100)
         ELSE Rat(strike * 3, 100)
    ELSE RatInt(current_price)

\* The value get_option_ticker returns: None on a failed response, else the
\* OptionContract.
get_option_ticker(status, kind, strike, ticker_data) ==
    IF status # 200
    THEN [returned |-> "None"]
    ELSE LET option_type == Lower(kind)
             current_price == FloatOrZero(ticker_data.last_price)
         IN  [returned |-> "OptionContract",
              contract |->
                  [strike |-> strike,
                   option_type |-> option_type,
                   last_price |->
                       FallbackLastPrice(current_price, option_type, strike),
                   bid |-> FloatOrZero(ticker_data.best_bid_price),
                   ask |-> FloatOrZero(ticker_data.best_ask_price)]]

\* get_option_ticker runs to its return.
GetOptionTicker ==
    /\ call.name = "get_option_ticker"
    /\ ret.pc = "called"
    /\ ret' = [pc |-> "returned", raised |-> NoError]
                  @@ get_option_ticker(call.status, call.kind, call.strike,
                                       call.ticker_data)
    /\ UNCHANGED <<call, portfolio, bot>>

\* The caller reads contract.mid_price of the contract it was given.
ReadMidPrice ==
    /\ call.name = "get_option_ticker"
    /\ ret.pc = "returned"
    /\ ret.returned = "OptionContract"
    /\ ret' = [ret EXCEPT !.pc = "done"] @@ [mid_price |-> mid_price(ret.contract)]
    /\ UNCHANGED <<call, portfolio, bot>>

TickerCalls ==
    [name : {"get_option_ticker"}, status : Statuses, kind : TickerKinds,
     strike : TickerStrikes,
     ticker_data : [last_price : LastPrices, best_bid_price : BidQuotes,
                    best_ask_price : AskQuotes]]

InitTicker ==
    /\ call \in TickerCalls
    /\ ret = Called
    /\ portfolio = EmptyPortfolio
    /\ bot = NewBot

NextTicker == GetOptionTicker \/ ReadMidPrice

SpecTicker == InitTicker /\ [][NextTicker]_vars

---------------------------------------------------------------------------
(* The closed forms of black_scholes_call and black_scholes_put at T > 0,  *)
(* term by term. log, sqrt, exp and erf are library functions: d1,         *)
(* sigma*sqrt(T), exp(-r*T) and the table of math.erf are inputs, and the  *)
(* arithmetic the code does on them is exact here (float rounding is not   *)
(* carried).                                                               *)

\* The values d1 and d2 can take, and the arguments of _normal_cdf.
DGrid == -3..3

\* Tables x |-> math.erf(x / sqrt(2)) in thousandths: math.erf is odd and
\* its values lie in [-1, 1].
ErfTables ==
    {[x \in DGrid |-> IF x < 0 THEN -(half[-x]) ELSE half[x]] :
        half \in {[x \in 0..3 |-> <<0, 683, 954, 997>>[x + 1]],
                  [x \in 0..3 |-> <<0, 500, 900, 1000>>[x + 1]]}}

\* math.exp(-r * T): greater than 1 for a negative rate.
DiscountFactors == {Rat(1, 2), Rat(9, 10), RatInt(1), Rat(11, 10)}

\* sigma * math.sqrt(T) for sigma > 0 and T > 0
VolSqrtTs == {1, 2}

\* x |-> 0.5 * erf(x / sqrt(2)), the shift by one left out.
normal_cdf_unshifted(x, erf) == RatMul(Rat(1, 2), Rat(erf[x], 1000))

\* _normal_cdf: 0.5 * (1 + math.erf(x / math.sqrt(2)))
normal_cdf(x, erf) == RatMul(Rat(1, 2), RatAdd(RatInt(1), Rat(erf[x], 1000)))

\* S * Phi(d1) - K * exp(-rT) * Phi(d2)
closed_form_call(S, K, discount, d1, d2, erf) ==
    RatSub(RatMul(RatInt(S), normal_cdf(d1, erf)),
           RatMul(RatMul(RatInt(K), discount), normal_cdf(d2, erf)))

\* K * exp(-rT) * Phi(-d2) - S * Phi(-d1)
closed_form_put(S, K, discount, d1, d2, erf) ==
    RatSub(RatMul(RatMul(RatInt(K), discount), normal_cdf(-d2, erf)),
           RatMul(RatInt(S), normal_cdf(-d1, erf)))

\* black_scholes_call runs through its closed form: d2 = d1 - sigma*sqrt(T).
ClosedFormCall ==
    /\ call.name = "closed_forms"
    /\ ret.pc = "called"
    /\ ret' = [pc |-> "call_priced", raised |-> NoError,
               call_price |->
                   closed_form_call(call.S, call.K, call.discount, call.d1,
                                    call.d1 - call.vol_sqrt_t, call.erf)]
    /\ UNCHANGED <<call, portfolio, bot>>

\* black_scholes_put runs through its closed form on the same arguments.
ClosedFormPut ==
    /\ call.name = "closed_forms"
    /\ ret.pc = "call_priced"
    /\ ret' = [ret EXCEPT !.pc = "done"] @@
              [put_price |->
                   closed_form_put(call.S, call.K, call.discount, call.d1,
                                   call.d1 - call.vol_sqrt_t, call.erf)]
    /\ UNCHANGED <<call, portfolio, bot>>

ClosedFormCalls ==
    [name : {"closed_forms"}, S : Spots, K : Spots,
     discount : DiscountFactors, d1 : -1..1, vol_sqrt_t : VolSqrtTs,
     erf : ErfTables]

InitParity ==
    /\ call \in ClosedFormCalls
    /\ ret = Called
    /\ portfolio = EmptyPortfolio
    /\ bot = NewBot

NextParity == ClosedFormCall \/ ClosedFormPut

SpecParity == InitParity /\ [][NextParity]_vars

---------------------------------------------------------------------------
(* OptionStrategies.calculate_strategy_greeks: the aggregate Greeks of a   *)
(* list of legs. Greeks are in thousandths, quantities are whole contracts. *)

\* The longest list of legs.
MaxLegs == 3

\* leg.qty: long, short, and the doubled short leg of a butterfly
LegQuantities == {-2, -1, 1}

\* Per-unit Greeks of a leg: a call, a put, and the dataclass defaults.
LegGreeks ==
    {[delta |-> 500, gamma |-> 20, theta |-> -10, vega |-> 100],
     [delta |-> -500, gamma |-> 20, theta |-> -10, vega |-> 100],
     [delta |-> 0, gamma |-> 0, theta |-> 0, vega |-> 0]}

StrategyLegs ==
    {OptionLeg("LEG", qty, 1000,
               IF greeks.delta < 0 THEN "put" ELSE "call", 0,
               greeks.delta, greeks.gamma, greeks.theta, greeks.vega) :
        qty \in LegQuantities, greeks \in LegGreeks}

LegLists == UNION {[1..n -> StrategyLegs] : n \in 0..MaxLegs}

\* A term that counts a short leg like a long one.
LegTermUnsigned(leg, greek) == leg[greek] * Abs(leg.qty)

\* leg.delta * leg.qty, and so on for each Greek
LegTerm(leg, greek) == leg[greek] * leg.qty

RECURSIVE SumLegs(_, _)
\* sum(leg.<greek> * leg.qty for leg in legs), from the left, starting at 0
SumLegs(legs, greek) ==
    IF legs = <<>> THEN 0
    ELSE SumLegs(SubSeq(legs, 1, Len(legs) - 1), greek)
             + LegTerm(legs[Len(legs)], greek)

\* The dict calculate_strategy_greeks(legs) returns.
calculate_strategy_greeks(legs) ==
    [delta |-> SumLegs(legs, "delta"),
     gamma |-> SumLegs(legs, "gamma"),
     theta |-> SumLegs(legs, "theta"),
     vega |-> SumLegs(legs, "vega")]

\* calculate_strategy_greeks runs to its return.
CalculateStrategyGreeks ==
    /\ call.name = "calculate_strategy_greeks"
    /\ ret.pc = "called"
    /\ ret' = [pc |-> "done", raised |-> NoError,
               greeks |-> calculate_strategy_greeks(call.legs)]
    /\ UNCHANGED <<call, portfolio, bot>>

InitGreeks ==
    /\ call \in [name : {"calculate_strategy_greeks"}, legs : LegLists]
    /\ ret = Called
    /\ portfolio = EmptyPortfolio
    /\ bot = NewBot

NextGreeks == CalculateStrategyGreeks

SpecGreeks == InitGreeks /\ [][NextGreeks]_vars

---------------------------------------------------------------------------
(* TelegramBot risk watcher: src/src/bot/__init__.py                       *)

\* Thresholds a user can enter in the risk configuration dialogue.
Thresholds ==
    [abs_delta |-> {5, 6}, var_95 |-> {10000, 20000}, max_drawdown |-> {-1, 15}]

\* The metrics a check reads from the portfolio: total delta, 95% VaR and
\* the maximum drawdown, which Portfolio.get_max_drawdown returns as 0.
ObservedDeltas == {-6, 0, 5, 6}

ObservedVars == {0, 10000, 10001, 20001}

get_max_drawdown == 0

\* The users who can start the bot.
Users == {[is_known |-> TRUE, id |-> 7]}

\* The value a check compares with the threshold of a metric.
Measured(metric, delta, var_95, drawdown) ==
    CASE metric = "abs_delta" -> Abs(delta)
      [] metric = "var_95" -> var_95
      [] metric = "max_drawdown" -> drawdown

\* The metrics above their threshold.
Breached(cfg, delta, var_95, drawdown) ==
    {m \in RiskMetrics : Measured(m, delta, var_95, drawdown) > cfg[m]}

\* An alert every time a metric is above its threshold.
AlertWhenever(breached, alerted) == breached

\* A breached metric is alerted unless its alert has been sent.
ShouldAlert(breached, alerted) == breached /\ ~alerted

\* The alert lines of a check, in the order delta, VaR, drawdown.
AlertLines(breached, state) ==
    SelectSeq(<<"abs_delta", "var_95", "max_drawdown">>,
              LAMBDA m : ShouldAlert(m \in breached, state[m]))

\* start_command: the user who starts the bot becomes the one to alert.
StartCommand ==
    /\ call.name \in {"TelegramBot", "check_risk_metrics_and_alert"}
    /\ \E user \in Users : bot' = [bot EXCEPT !.main_user_id = user]
    /\ UNCHANGED <<call, ret, portfolio>>

\* The risk configuration dialogue, step "confirm": one threshold is
\* replaced.
ConfirmRiskConfig ==
    /\ call.name \in {"TelegramBot", "check_risk_metrics_and_alert"}
    /\ \E metric \in RiskMetrics : \E value \in Thresholds[metric] :
          bot' = [bot EXCEPT !.risk_config[metric] = value]
    /\ UNCHANGED <<call, ret, portfolio>>

\* One round of risk_watcher: check_risk_metrics_and_alert runs to its
\* end.  Without a user it returns at once; otherwise it sets the alert
\* flag of every metric and sends the new alerts in one message, which
\* Telegram delivers or rejects.
CheckRiskMetricsAndAlert ==
    /\ call.name \in {"TelegramBot", "check_risk_metrics_and_alert"}
    /\ \E delta \in ObservedDeltas, var_95 \in ObservedVars, delivered \in BOOLEAN :
          LET drawdown == get_max_drawdown
              breached == Breached(bot.risk_config, delta, var_95, drawdown)
              alerts == AlertLines(breached, bot.risk_alert_state)
          IN  /\ call' = [name |-> "check_risk_metrics_and_alert",
                          delta |-> delta, var_95 |-> var_95,
                          drawdown |-> drawdown]
              /\ IF ~bot.main_user_id.is_known
                  THEN /\ ret' = [pc |-> "done", raised |-> NoError,
                                  checked |-> FALSE, breached |-> {},
                                  alerts |-> <<>>, delivered |-> FALSE]
                       /\ UNCHANGED bot
                  ELSE /\ ret' = [pc |-> "done", raised |-> NoError,
                                  checked |-> TRUE, breached |-> breached,
                                  alerts |-> alerts,
                                  delivered |-> (alerts # <<>> /\ delivered)]
                       /\ bot' = [bot EXCEPT !.risk_alert_state =
                                     [m \in RiskMetrics |-> m \in breached]]
    /\ UNCHANGED portfolio

InitBot ==
    /\ call = [name |-> "TelegramBot"]
    /\ ret = [pc |-> "done", raised |-> NoError]
    /\ portfolio = EmptyPortfolio
    /\ bot = NewBot

NextBot == StartCommand \/ ConfirmRiskConfig \/ CheckRiskMetricsAndAlert

SpecBot == InitBot /\ [][NextBot]_vars

---------------------------------------------------------------------------
(* The whole engine: a client makes any one call and it runs to its end.   *)

Init == InitPricing \/ InitIV \/ InitHedge \/ InitStrategy \/ InitPortfolio
        \/ InitRisk \/ InitTicker \/ InitParity \/ InitGreeks \/ InitBot

Next == NextPricing \/ NextIV \/ NextHedge \/ NextStrategy \/ NextPortfolio
        \/ NextRisk \/ NextTicker \/ NextParity \/ NextGreeks \/ NextBot

Spec == Init /\ [][Next]_vars

---------------------------------------------------------------------------
(* Properties.                                                             *)

IsPrice == call.name \in {"black_scholes_call", "black_scholes_put"}

\* C1: with S > 0 and K > 0, whatever r and sigma are, a price asked at
\* T <= 0 is the intrinsic value, max(S-K, 0) for a call and max(K-S, 0) for
\* a put, returned without evaluating d1 and without an exception.
C1_IntrinsicAtExpiry ==
    (IsPrice /\ ret.pc = "done" /\ call.T <= 0) =>
        /\ ret.raised = NoError
        /\ ~ret.d1_evaluated
        /\ ret.value = IF call.name = "black_scholes_call"
                       THEN Max(call.S - call.K, 0)
                       ELSE Max(call.K - call.S, 0)

\* An in-the-money call priced on the expiry day with sigma = 0.
C1_Witness ==
    /\ call.name = "black_scholes_call"
    /\ ret.pc = "done"
    /\ call.T = 0 /\ call.sigma = 0 /\ call.S > call.K
    /\ ret.raised = NoError
    /\ ret.value = call.S - call.K

IsIV == call.name = "calculate_implied_volatility"

\* C2: calculate_implied_volatility terminates for every input with S > 0
\* and K > 0: it never starts more than 100 loop bodies, and once called it
\* returns a value, converged or not.
C2_IVTerminates ==
    /\ [](IsIV => (ret.pc \in {"loop", "done"} => ret.iter <= MAX_ITERATIONS))
    /\ (IsIV /\ ret.pc = "called") ~>
           (ret.pc = "done" /\ ret.raised = NoError /\ ret.value \in 0..SIGMA_CAP)

\* The loop ran its 100 bodies without converging and sigma was returned.
C2_Witness ==
    /\ IsIV
    /\ ret.pc = "done"
    /\ ret.exit = "exhausted"
    /\ ret.iter = MAX_ITERATIONS
    /\ ret.raised = NoError

IsFindOptimalHedge == call.name = "find_optimal_hedge"

Returned == ret.pc = "done"

\* The chain without the call and put contracts whose signed delta is 0.
WithoutZeroDelta(option_chain) ==
    SelectSeq(option_chain,
              LAMBDA o : ~(o.option_type \in {"call", "put"} /\ o.delta.n = 0))

HasZeroDelta(option_chain) == WithoutZeroDelta(option_chain) # option_chain

\* C3: in find_optimal_hedge a candidate whose signed delta is 0 is skipped:
\* no exception is raised and the list returned is the one the search
\* returns for the chain without that candidate.
C3_ZeroDeltaSkipped ==
    (IsFindOptimalHedge /\ Returned /\ HasZeroDelta(call.option_chain)) =>
        /\ ret.raised = NoError
        /\ ret.recommendations =
               find_optimal_hedge(call.portfolio_delta,
                                  WithoutZeroDelta(call.option_chain),
                                  call.target_delta, call.max_cost,
                                  call.roundings).recommendations

\* |a - b| < 0.01
Within001(a, b) ==
    LET n == a.n * b.d - b.n * a.d
        d == a.d * b.d
    IN  100 * Abs(n) < d

\* C4: whenever |target_delta - current_delta| < 0.01 the hedge search
\* returns an empty list whatever the option chain holds, current_delta =
\* target_delta included; so do find_optimal_hedge and, with target 0,
\* calculate_hedge_recommendations.
C4_EmptyWithinTolerance ==
    /\ (IsFindOptimalHedge /\ Returned
            /\ Within001(call.target_delta, call.portfolio_delta)) =>
           (ret.raised = NoError /\ ret.recommendations = <<>>)
    /\ (call.name = "calculate_hedge_recommendations" /\ Returned
            /\ Within001(RatInt(0), call.portfolio_delta)) =>
           (ret.raised = NoError /\ ret.recommendations = <<>>)

\* A search with current = target = 0.5 over a chain that holds a usable
\* put returns the empty list.
C4_Witness ==
    /\ IsFindOptimalHedge /\ Returned
    /\ call.portfolio_delta = Rat(1, 2)
    /\ call.target_delta = Rat(1, 2)
    /\ \E i \in 1..Len(call.option_chain) : call.option_chain[i].symbol = "P110"
    /\ ret.recommendations = <<>>

IsCondor == call.name = "iron_condor"

CondorNetCredit ==
    call.put_lower_price - call.put_upper_price
    + call.call_lower_price - call.call_upper_price

CondorAt(price) ==
    CondorPayoffAt(call.put_lower_strike, call.put_upper_strike,
                   call.call_lower_strike, call.call_upper_strike,
                   CondorNetCredit, price)

\* C5: for an iron condor with ordered strikes, every payoff the builder
\* computes at a price at or below put_lower is
\* -(put_upper - put_lower - net_credit), and at or above call_upper is
\* -(call_upper - call_lower - net_credit); payoff_at_expiry and current_pnl.
C5_CondorTailPayoff ==
    (IsCondor /\ Returned) =>
        LET lowTail == -(call.put_upper_strike - call.put_lower_strike - CondorNetCredit)
            highTail == -(call.call_upper_strike - call.call_lower_strike - CondorNetCredit)
            curve == ret.payoff.payoff_at_expiry
        IN  /\ \A price \in DOMAIN curve :
                 /\ price <= call.put_lower_strike => curve[price] = lowTail
                 /\ price >= call.call_upper_strike => curve[price] = highTail
            /\ call.current_price <= call.put_lower_strike =>
                   ret.payoff.current_pnl = lowTail
            /\ call.current_price >= call.call_upper_strike =>
                   ret.payoff.current_pnl = highTail

BreakevensAreZeros(PayoffAt(_)) ==
    \A i \in 1..Len(ret.payoff.breakeven_points) :
        PayoffAt(ret.payoff.breakeven_points[i]) = 0

ButterflyNetDebit ==
    call.lower_call_price - 2 * call.middle_call_price + call.upper_call_price

EvenlySpaced ==
    call.middle_strike - call.lower_strike = call.upper_strike - call.middle_strike

\* C6: every price listed in breakeven_points is a zero of the strategy's
\* net payoff at expiry, for the straddle, for the butterfly with evenly
\* spaced strikes and 0 <= net_debit <= middle - lower, and for the iron
\* condor with ordered strikes and 0 <= net_credit < wing width.
C6_BreakevensAreZeros ==
    /\ (call.name = "straddle" /\ Returned) =>
           BreakevensAreZeros(LAMBDA price :
               StraddlePayoffAt(call.strike, call.call_price + call.put_price, price))
    /\ (call.name = "butterfly" /\ Returned /\ EvenlySpaced
            /\ 0 <= ButterflyNetDebit
            /\ ButterflyNetDebit <= call.middle_strike - call.lower_strike) =>
           BreakevensAreZeros(LAMBDA price :
               ButterflyPayoffAt(call.lower_strike, call.middle_strike,
                                 call.upper_strike, ButterflyNetDebit,
                                 call.is_call_butterfly, price))
    /\ (IsCondor /\ Returned
            /\ 0 <= CondorNetCredit
            /\ CondorNetCredit < call.put_upper_strike - call.put_lower_strike
            /\ CondorNetCredit < call.call_upper_strike - call.call_lower_strike) =>
           BreakevensAreZeros(CondorAt)

\* C7: the net-debit builders report max_loss as the negative of the premium
\* paid: -(call_price + put_price) for the straddle and
\* -(lower_price - 2*middle_price + upper_price) for the butterfly.
C7_MaxLossIsMinusPremium ==
    /\ (call.name = "straddle" /\ Returned) =>
           ret.payoff.max_loss = -(call.call_price + call.put_price)
    /\ (call.name = "butterfly" /\ Returned) =>
           ret.payoff.max_loss = -ButterflyNetDebit

IsStrategy == call.name \in {"straddle", "butterfly", "iron_condor"}

\* max(p - strike, 0) for a call leg, max(strike - p, 0) for a put leg
IntrinsicValue(leg, price) ==
    IF leg.option_type = "call" THEN Max(price - leg.strike, 0)
    ELSE Max(leg.strike - price, 0)

RECURSIVE LegsIntrinsic(_, _)
LegsIntrinsic(legs, price) ==
    IF legs = <<>> THEN 0
    ELSE Head(legs).qty * IntrinsicValue(Head(legs), price)
         + LegsIntrinsic(Tail(legs), price)

RECURSIVE LegsPremium(_)
LegsPremium(legs) ==
    IF legs = <<>> THEN 0
    ELSE Head(legs).qty * Head(legs).price + LegsPremium(Tail(legs))

LegsPayoff(legs, price) == LegsIntrinsic(legs, price) - LegsPremium(legs)

\* C8: for each builder and every sampled price p, payoff_at_expiry[p] is
\* the sum over the returned legs of qty * intrinsic value at p minus the sum
\* of qty * leg price; current_pnl is the same at current_price.
C8_PayoffIsLegSum ==
    (IsStrategy /\ Returned) =>
        /\ \A price \in DOMAIN ret.payoff.payoff_at_expiry :
               ret.payoff.payoff_at_expiry[price] = LegsPayoff(ret.legs, price)
        /\ ret.payoff.current_pnl = LegsPayoff(ret.legs, call.current_price)

\* An iron condor sold for a net credit, sampled below its lowest strike and
\* above its highest.
C8_Witness ==
    /\ IsCondor /\ Returned
    /\ CondorNetCredit > 0
    /\ \E lo, hi \in DOMAIN ret.payoff.payoff_at_expiry :
          /\ lo < call.put_lower_strike
          /\ hi > call.call_upper_strike
          /\ ret.payoff.payoff_at_expiry[lo] # ret.payoff.payoff_at_expiry[hi]
    /\ ret.payoff.current_pnl = LegsPayoff(ret.legs, call.current_price)

\* C9: straddle(K, call_price, put_price, S) returns two legs, long 1 call
\* and long 1 put at K, max_loss = -(call_price + put_price), max_profit =
\* +infinity, breakevens K -/+ total premium, and current_pnl =
\* max(0, S-K) + max(0, K-S) - total premium, which is -total premium at S = K.
C9_Straddle ==
    (call.name = "straddle" /\ Returned) =>
        LET total_premium == call.call_price + call.put_price
            Long(leg, kind, price) ==
                /\ leg.qty = 1 /\ leg.option_type = kind
                /\ leg.strike = call.strike /\ leg.price = price
        IN  /\ Len(ret.legs) = 2
            /\ Long(ret.legs[1], "call", call.call_price)
            /\ Long(ret.legs[2], "put", call.put_price)
            /\ ret.payoff.max_loss = -total_premium
            /\ ret.payoff.max_profit = Infinity
            /\ ret.payoff.breakeven_points =
                   <<call.strike - total_premium, call.strike + total_premium>>
            /\ ret.payoff.current_pnl =
                   Max(0, call.current_price - call.strike)
                   + Max(0, call.strike - call.current_price) - total_premium
            /\ call.current_price = call.strike =>
                   ret.payoff.current_pnl = -total_premium

\* A straddle bought at the money for a positive premium.
C9_Witness ==
    /\ call.name = "straddle" /\ Returned
    /\ call.current_price = call.strike
    /\ call.call_price > 0 /\ call.put_price > 0
    /\ ret.payoff.current_pnl = -(call.call_price + call.put_price)
    /\ ret.payoff.max_loss < 0

\* C10: for a butterfly with evenly spaced strikes and any leg prices,
\* max_profit = (middle - lower) - net_debit and max_loss = net_debit with
\* net_debit = lower_price - 2*middle_price + upper_price, so max_profit +
\* max_loss = middle - lower; the payoff at the middle strike is max_profit,
\* for the call and for the put variant.
C10_Butterfly ==
    (call.name = "butterfly" /\ Returned /\ EvenlySpaced) =>
        /\ ret.payoff.max_profit =
               (call.middle_strike - call.lower_strike) - ButterflyNetDebit
        /\ ret.payoff.max_loss = ButterflyNetDebit
        /\ ret.payoff.max_profit + ret.payoff.max_loss =
               call.middle_strike - call.lower_strike
        /\ LegsPayoff(ret.legs, call.middle_strike) = ret.payoff.max_profit
        /\ call.current_price = call.middle_strike =>
               ret.payoff.current_pnl = ret.payoff.max_profit
        /\ \A price \in DOMAIN ret.payoff.payoff_at_expiry :
               price = call.middle_strike =>
                   ret.payoff.payoff_at_expiry[price] = ret.payoff.max_profit

\* A put butterfly with evenly spaced strikes and a non-zero net debit,
\* valued at its middle strike.
C10_Witness ==
    /\ call.name = "butterfly" /\ Returned /\ EvenlySpaced
    /\ ~call.is_call_butterfly
    /\ ButterflyNetDebit # 0
    /\ call.current_price = call.middle_strike
    /\ ret.payoff.current_pnl = ret.payoff.max_profit


RECURSIVE SumInts(_)
\* The sum of the integers a dict holds.
SumInts(terms) ==
    IF DOMAIN terms = {} THEN 0
    ELSE LET k == CHOOSE x \in DOMAIN terms : TRUE
         IN  terms[k] + SumInts(DictPop(terms, k))

\* The option kind a symbol UNDERLYING-EXPIRY-STRIKE-KIND names.
KindOfSymbol(symbol) == IF symbol[Len(symbol)] = <<"P">> THEN "put" ELSE "call"

\* The underlying price S the moneyness is taken at.
UnderlyingPrice(current_prices) ==
    IF HasPrice(current_prices, BTC_USDT_SPOT)
    THEN current_prices.prices[BTC_USDT_SPOT]
    ELSE FALLBACK_PRICE

\* band_delta in hundredths, from the option kind and S/K alone.
BandDeltaCents(kind, S, K) ==
    IF kind = "put"
    THEN (IF S > K THEN -15 ELSE IF 100 * S < 95 * K THEN -85 ELSE -50)
    ELSE (IF 100 * S > 105 * K THEN 85 ELSE IF S < K THEN 15 ELSE 50)

\* What a position adds to the total delta, in hundredths.
DeltaCents(position, S) ==
    IF position.instrument_type \in {"spot", "perpetual"} THEN 100 * position.qty
    ELSE position.qty
         * BandDeltaCents(KindOfSymbol(position.symbol), S, FloatOf(position.symbol[3]))

\* C11: get_total_delta returns the sum of the quantities of the spot and
\* perpetual positions plus, for each option position, qty * band_delta,
\* band_delta being fixed by the option kind and the moneyness S/K; it
\* returns exactly 0 for an empty portfolio and the sum of the open
\* quantities when only spot and perpetual positions are held.
C11_TotalDelta ==
    (call.name = "get_total_delta" /\ Returned) =>
        LET positions == portfolio.positions
            S == UnderlyingPrice(call.current_prices)
        IN  /\ ret.value =
                   Rat(SumInts([k \in DOMAIN positions |-> DeltaCents(positions[k], S)]),
                       100)
            /\ DOMAIN positions = {} => ret.value = RatInt(0)
            /\ (\A k \in DOMAIN positions :
                    positions[k].instrument_type \in {"spot", "perpetual"}) =>
                   ret.value = RatInt(SumInts([k \in DOMAIN positions |->
                                                   positions[k].qty]))


\* (sigma_annual / sqrt(252)) * 1.645 at sigma_annual = 0.20, to six
\* decimals: 2.0725% of the notional.
PARAMETRIC_VAR_95 == Rat(20725, 1000000)

\* C12: the 95% VaR is total_notional * (0.20 / sqrt(252)) * 1.645, with
\* total_notional the sum of |qty * price| over the positions, and
\* Portfolio.get_var_95 and StressTesting._calculate_portfolio_var return
\* the same figure for the same positions and prices.
C12_VarFormula ==
    /\ (call.name = "get_var_95" /\ Returned) =>
           LET positions == portfolio.positions
               total_notional ==
                   SumValues([k \in DOMAIN positions |->
                                  VarNotional(positions[k], call.current_prices)])
           IN  /\ ret.value = RatMul(total_notional, PARAMETRIC_VAR_95)
               /\ call.current_prices.given =>
                      ret.value = calculate_portfolio_var(positions,
                                                          call.current_prices.prices)
    /\ (call.name = "_calculate_portfolio_var" /\ Returned) =>
           ret.value = get_var_95(portfolio.positions, call.current_prices)

\* var >= 0
NonNegative(var) == ~RatLess(var, RatInt(0))

\* The positions with the quantity of one of them replaced.
WithQty(positions, k, qty) == DictSet(positions, k, [positions[k] EXCEPT !.qty = qty])

\* The price map with the price of one symbol replaced.
WithPrice(current_prices, k, price) == PricesOf(DictSet(current_prices.prices, k, price))

\* C13: get_var_95 is never negative, short positions and prices at or
\* below 0 included, and is 0 for an empty portfolio; replacing the quantity
\* and the price of any one position by others of no smaller |qty * price|
\* never lowers it.
C13_VarMonotone ==
    (call.name = "get_var_95" /\ Returned) =>
        LET positions == portfolio.positions
        IN  /\ NonNegative(ret.value)
            /\ DOMAIN positions = {} => ret.value = RatInt(0)
            /\ \A k \in DOMAIN positions, qty \in -3..3, price \in {-200, 0, 100, 500} :
                   LET more == WithQty(positions, k, qty)
                       at == WithPrice(call.current_prices, k, price)
                   IN  ~RatLess(VarNotional(more[k], at),
                                VarNotional(positions[k], call.current_prices))
                       => ~RatLess(get_var_95(more, at), ret.value)

\* The VaR of a portfolio that holds a short position, valued where the
\* price map has a price below 0, is above 0.
C13_Witness ==
    /\ call.name = "get_var_95" /\ Returned
    /\ call.current_prices = InstrumentPrices
    /\ \E k \in DOMAIN portfolio.positions :
          /\ portfolio.positions[k].qty < 0
          /\ k = BTC_USDT_PERP
    /\ \E k \in DOMAIN portfolio.positions : portfolio.positions[k].qty > 0
    /\ RatLess(RatInt(0), ret.value)


RECURSIVE SumOfSet(_, _)
\* The sum of sizes[i] over the indices i of I.
SumOfSet(sizes, I) ==
    IF I = {} THEN 0
    ELSE LET i == CHOOSE x \in I : TRUE
         IN  sizes[i] + SumOfSet(sizes, I \ {i})

HedgeListed == IsFindOptimalHedge /\ Returned /\ ret.raised = NoError

\* The recommendations returned, as a set.
Recommended == {ret.recommendations[i] : i \in 1..Len(ret.recommendations)}

\* quantity times contract price
CostOf(rec) == RatMul(RatAbs(rec.quantity), mid_price(rec.option))

\* C15: no recommendation returned by find_optimal_hedge has |quantity| <
\* 0.001, and when a cost ceiling is supplied, a ceiling of 0 included, none
\* has a cost (|quantity| times the contract's price) above the ceiling.
C15_FiltersApplied ==
    HedgeListed =>
        \A rec \in Recommended :
            /\ ~RatLess(RatAbs(rec.quantity), Rat(1, 1000))
            /\ rec.cost = CostOf(rec)
            /\ call.max_cost.given => ~RatLess(call.max_cost.value, rec.cost)

HedgeRequired == RatSub(call.target_delta, call.portfolio_delta)

\* -|delta| for a put, delta as supplied for a call
SignedDeltaOf(option) ==
    IF option.option_type = "put"
    THEN [n |-> -Abs(option.delta.n), d |-> option.delta.d]
    ELSE option.delta

\* quantity * signed_delta as the float multiplication returned it
ProductOf(rec) == RatSub(HedgeRequired, rec.remaining_delta)

\* C16: every recommendation returned by find_optimal_hedge has quantity =
\* hedge_required / signed_delta, signed_delta being -|delta| for a put and
\* delta for a call, effectiveness = min(1.0, |quantity * signed_delta| /
\* |hedge_required|), and 0 <= effectiveness <= 1.0, however the float
\* product rounds.
C16_EffectivenessBounds ==
    HedgeListed =>
        \A rec \in Recommended :
            LET ratio == RatDiv(RatAbs(ProductOf(rec)), RatAbs(HedgeRequired))
            IN  /\ RatMul(rec.quantity, SignedDeltaOf(rec.option)) = HedgeRequired
                /\ ProductOf(rec) =
                       RoundedProduct(HedgeRequired, call.roundings[rec.option.symbol])
                /\ rec.effectiveness =
                       (IF RatLess(RatInt(1), ratio) THEN RatInt(1) ELSE ratio)
                /\ ~RatLess(rec.effectiveness, RatInt(0))
                /\ ~RatLess(RatInt(1), rec.effectiveness)

\* Two recommendations are returned: the product of one rounded above
\* hedge_required and its effectiveness is the cap 1.0, the product of the
\* other rounded below and its effectiveness is less than 1.0.
C16_Witness ==
    /\ HedgeListed
    /\ \E capped, below \in Recommended :
          /\ call.roundings[capped.option.symbol] = 1
          /\ capped.effectiveness = RatInt(1)
          /\ call.roundings[below.option.symbol] = -1
          /\ below.option.option_type = "put"
          /\ RatLess(below.effectiveness, RatInt(1))

\* b does not rank before a: its effectiveness is lower, or equal with a
\* cost that is not lower.
RanksAtOrAfter(b, a) ==
    \/ RatLess(b.effectiveness, a.effectiveness)
    \/ b.effectiveness = a.effectiveness /\ ~RatLess(b.cost, a.cost)

\* The candidates that survive the filters, in chain order.
Survivors ==
    ScanChain(call.option_chain, HedgeRequired, call.max_cost, call.roundings,
              <<>>).recommendations

\* C17: find_optimal_hedge returns at most 5 recommendations, by
\* effectiveness descending and, for equal effectiveness, cost ascending;
\* they are min(5, n) of the n surviving candidates, and every survivor left
\* out ranks at or after every one returned.
C17_TopFiveRanked ==
    (HedgeListed /\ ~Within001(call.target_delta, call.portfolio_delta)) =>
        LET result == ret.recommendations
            survivors == {Survivors[i] : i \in 1..Len(Survivors)}
        IN  /\ Len(result) <= 5
            /\ Len(result) = Min(5, Len(Survivors))
            /\ Cardinality(Recommended) = Len(result)
            /\ Recommended \subseteq survivors
            /\ \A i, j \in 1..Len(result) :
                   i < j => RanksAtOrAfter(result[j], result[i])
            /\ \A left \in survivors \ Recommended :
                   \A rec \in Recommended : RanksAtOrAfter(left, rec)

\* Seven candidates survive and five are returned; the cheapest survivor is
\* left out because its effectiveness is below 1.0, and the list returned is
\* not in chain order.
C17_Witness ==
    /\ HedgeListed
    /\ ~Within001(call.target_delta, call.portfolio_delta)
    /\ Len(Survivors) = 7
    /\ Len(ret.recommendations) = 5
    /\ \E left \in {Survivors[i] : i \in 1..Len(Survivors)} \ Recommended :
          /\ RatLess(left.effectiveness, RatInt(1))
          /\ \A rec \in Recommended : RatLess(left.cost, rec.cost)
    /\ ret.recommendations # SubSeq(Survivors, 1, 5)

\* The ticker call has returned a contract and its mid_price has been read.
MidPriceRead ==
    /\ call.name = "get_option_ticker"
    /\ ret.pc = "done"
    /\ ret.returned = "OptionContract"

\* The last trade price the exchange reported, 0 when it reported none.
LastTradePrice == FloatOrZero(call.ticker_data.last_price)

\* C18: OptionContract.mid_price is (bid+ask)/2 when bid or ask is non-zero,
\* the last trade price when bid and ask are both zero, and 5% of strike for
\* a put or 3% of strike for a call when bid, ask and last price are all
\* zero; so for strike > 0 the mid price is never 0.
C18_MidPriceLadder ==
    MidPriceRead =>
        LET contract == ret.contract
            quoted == contract.bid # 0 \/ contract.ask # 0
        IN  /\ quoted => ret.mid_price = Rat(contract.bid + contract.ask, 2)
            /\ (~quoted /\ LastTradePrice # 0) =>
                   ret.mid_price = RatInt(LastTradePrice)
            /\ (~quoted /\ LastTradePrice = 0) =>
                   ret.mid_price = IF call.kind = "P"
                                   THEN Rat(contract.strike * 5, 100)
                                   ELSE Rat(contract.strike * 3, 100)
            /\ contract.strike > 0 => ~RatIsZero(ret.mid_price)

\* A Greeks routine has returned for an option at or past its expiry.
ExpiredGreeksReturned ==
    /\ call.name \in {"calculate_greeks", "black_scholes_delta"}
    /\ ret.pc = "done"
    /\ call.T <= 0

\* Delta at expiry by moneyness, in thousandths.
MoneynessDelta(S, K, option_type) ==
    IF option_type = "call"
    THEN (IF S > K THEN 1000 ELSE 0)
    ELSE (IF S < K THEN -1000 ELSE 0)

\* C19: at T <= 0 both calculate_greeks and risk.greeks.black_scholes_delta
\* return the delta that moneyness determines (call: 1 if S > K else 0; put:
\* -1 if S < K else 0), and calculate_greeks returns zero for gamma, theta,
\* vega and rho; so the two deltas agree for every (S, K).
C19_ExpiredGreeks ==
    ExpiredGreeksReturned =>
        /\ ret.raised = NoError
        /\ ret.delta = MoneynessDelta(call.S, call.K, call.option_type)
        /\ call.name = "calculate_greeks" =>
               /\ ret.gamma = 0
               /\ ret.theta = 0
               /\ ret.vega = 0
               /\ ret.rho = 0

\* The solver was called for an option that has not expired.
IVSolving ==
    /\ call.name = "calculate_implied_volatility"
    /\ call.T > 0

\* sigma lies in [0.01, 5.0].
InSigmaBounds(sigma) == SIGMA_FLOOR <= sigma /\ sigma <= SIGMA_CAP

\* C20: for T > 0 the solver starts at sigma = 0.5 and clamps every iterate
\* to [0.01, 5.0]: every sigma at which a loop body evaluates price and vega,
\* and the sigma returned, lies in [0.01, 5.0].
C20_SigmaBounded ==
    IVSolving =>
        /\ (ret.pc = "loop" /\ ret.iter = 0) => ret.sigma = INITIAL_SIGMA
        /\ ret.pc = "loop" => InSigmaBounds(ret.sigma)
        /\ (ret.pc = "done" /\ ret.raised = NoError) => InSigmaBounds(ret.value)

\* The solver has returned the floor 0.01 after at least two loop bodies: an
\* update went to or below zero and the clamp brought it back.
C20_Witness ==
    /\ IVSolving
    /\ ret.pc = "done"
    /\ ret.raised = NoError
    /\ ret.iter >= 2
    /\ ret.value = SIGMA_FLOOR

\* This step is a loop body that leaves through the vega guard.
VegaGuardStep ==
    /\ IVSolving
    /\ ret.pc = "loop"
    /\ ret'.pc = "done"
    /\ ret'.exit = "vega"

\* C21: in the implied-volatility solver a vega below 1e-10 stops the loop
\* before the Newton update: no division by that vega is made (no
\* ZeroDivisionError leaves the solver), and the value returned is the sigma
\* of the last completed iteration, 0.5 on the first iteration.
C21_VegaGuard ==
    /\ [](IVSolving /\ ret.pc = "done" => ret.raised # "ZeroDivisionError")
    /\ [][VegaGuardStep =>
             /\ ret'.raised = NoError
             /\ ret'.value = ret.sigma
             /\ ret'.iter = ret.iter + 1
             /\ ret.iter = 0 => ret'.value = INITIAL_SIGMA]_vars

\* The guard stopped the loop in a later body and the value returned is not
\* the initial guess.
C21_Witness ==
    /\ IVSolving
    /\ ret.pc = "done"
    /\ ret.exit = "vega"
    /\ ret.iter >= 2
    /\ ret.value # INITIAL_SIGMA

\* Both closed forms have been evaluated on the same arguments.
BothPriced == call.name = "closed_forms" /\ ret.pc = "done"

\* C22: put-call parity: for S, K, sigma > 0 and T > 0,
\* black_scholes_call - black_scholes_put = S - K * exp(-r*T), up to the
\* rounding of the float operations.
C22_PutCallParity ==
    BothPriced =>
        RatSub(ret.call_price, ret.put_price) =
            RatSub(RatInt(call.S), RatMul(RatInt(call.K), call.discount))

\* Parity checked where neither price is zero, d1 and d2 have opposite
\* signs, and S differs from the discounted strike.
C22_Witness ==
    /\ BothPriced
    /\ call.d1 > 0
    /\ call.d1 - call.vol_sqrt_t < 0
    /\ ~RatIsZero(ret.call_price)
    /\ ~RatIsZero(ret.put_price)
    /\ ret.call_price # ret.put_price
    /\ call.discount # RatInt(1)

\* calculate_greeks has returned for valid inputs: S, K and sigma positive.
GreeksReturned ==
    /\ call.name = "calculate_greeks"
    /\ ret.pc = "done"
    /\ call.S > 0 /\ call.K > 0 /\ call.sigma > 0
    /\ ret.raised = NoError

\* C23: for valid inputs and any T, calculate_greeks returns a call delta in
\* [0, 1] and a put delta in [-1, 0].
C23_DeltaBounds ==
    GreeksReturned =>
        IF call.option_type = "call"
        THEN 0 <= ret.delta /\ ret.delta <= 1000
        ELSE -1000 <= ret.delta /\ ret.delta <= 0

\* A put before expiry whose delta is strictly inside its range.
C23_Witness ==
    /\ GreeksReturned
    /\ call.option_type = "put"
    /\ call.T > 0
    /\ ret.delta = -500

\* calculate_strategy_greeks has returned.
StrategyGreeksReturned ==
    /\ call.name = "calculate_strategy_greeks"
    /\ ret.pc = "done"

\* The four aggregate Greeks.
GreekNames == {"delta", "gamma", "theta", "vega"}

\* The quantity-weighted sum of one Greek: long legs add qty times the
\* per-unit Greek, short legs subtract |qty| times it.
WeightedSum(legs, greek) ==
    LET long == {i \in 1..Len(legs) : legs[i].qty > 0}
        short == {i \in 1..Len(legs) : legs[i].qty < 0}
        held == [i \in 1..Len(legs) |-> Abs(legs[i].qty) * legs[i][greek]]
    IN  SumOfSet(held, long) - SumOfSet(held, short)

\* The legs are a butterfly's 1, -2, 1 with one per-unit Greek throughout.
ButterflyShaped(legs, greek) ==
    /\ Len(legs) = 3
    /\ <<legs[1].qty, legs[2].qty, legs[3].qty>> = <<1, -2, 1>>
    /\ legs[1][greek] = legs[2][greek]
    /\ legs[2][greek] = legs[3][greek]

\* C24: calculate_strategy_greeks returns for each of delta, gamma, theta and
\* vega the sum over the legs of leg.qty times the leg's per-unit Greek, with
\* short legs subtracting; the empty list gives 0 for all four, and a
\* butterfly whose legs carry the same per-unit Greek gives 0 for it.
C24_StrategyGreeks ==
    StrategyGreeksReturned =>
        /\ ret.raised = NoError
        /\ DOMAIN ret.greeks = GreekNames
        /\ \A greek \in GreekNames :
               /\ ret.greeks[greek] = WeightedSum(call.legs, greek)
               /\ call.legs = <<>> => ret.greeks[greek] = 0
               /\ ButterflyShaped(call.legs, greek) => ret.greeks[greek] = 0

\* A butterfly of three calls with non-zero Greeks: every aggregate is 0.
C24_Witness ==
    /\ StrategyGreeksReturned
    /\ \A greek \in GreekNames : ButterflyShaped(call.legs, greek)
    /\ call.legs[1].delta = 500
    /\ ret.greeks = [delta |-> 0, gamma |-> 0, theta |-> 0, vega |-> 0]

RECURSIVE FilledQty(_, _)
\* The sum of the quantities of the fills applied to symbol.  A position is
\* absent exactly when this sum is 0, so it is also the sum of the fills
\* since the position was last absent.
FilledQty(transactions, symbol) ==
    IF transactions = <<>> THEN 0
    ELSE LET last == transactions[Len(transactions)]
         IN  FilledQty(SubSeq(transactions, 1, Len(transactions) - 1), symbol)
                 + (IF last.symbol = symbol THEN last.qty ELSE 0)

\* The symbols update_fill can be called with.
TradedSymbols == {i.symbol : i \in Instruments}

RECURSIVE OpenFills(_, _)
\* The fills applied to the position of symbol since the symbol was last
\* absent, oldest first.
OpenFills(transactions, symbol) ==
    IF transactions = <<>> THEN <<>>
    ELSE LET last == transactions[Len(transactions)]
             before == OpenFills(SubSeq(transactions, 1, Len(transactions) - 1),
                                 symbol)
         IN  IF last.symbol # symbol THEN before
             ELSE IF FilledQty(before, symbol) + last.qty = 0 THEN <<>>
             ELSE Append(before, last)

\* C26: the avg_px of a stored position lies between the lowest and the
\* highest price of the fills applied to that position, and after two fills
\* in the same direction (q1 @ p1, q2 @ p2) it is
\* (q1*p1 + q2*p2) / (q1 + q2).
C26_AvgPxWithinFills ==
    \A symbol \in DOMAIN portfolio.positions :
        LET fills == OpenFills(portfolio.transactions, symbol)
            prices == {fills[i].price : i \in 1..Len(fills)}
            avg_px == portfolio.positions[symbol].avg_px
        IN  /\ \E low \in prices : ~RatLess(avg_px, RatInt(low))
            /\ \E high \in prices : ~RatLess(RatInt(high), avg_px)
            /\ (Len(fills) = 2 /\ fills[1].qty * fills[2].qty > 0) =>
                   avg_px = Rat(fills[1].qty * fills[1].price
                                    + fills[2].qty * fills[2].price,
                                fills[1].qty + fills[2].qty)

\* The band deltas of an option kind, per unit.
BandsOfKind(kind) ==
    IF kind = "put"
    THEN {Rat(-15, 100), Rat(-50, 100), Rat(-85, 100)}
    ELSE {Rat(15, 100), Rat(50, 100), Rat(85, 100)}

\* C27: an option position is classified by the option kind of its symbol
\* alone: a call contributes qty times a positive band delta (0.15, 0.5 or
\* 0.85) to get_total_delta whatever letters its expiry label contains, and
\* a put contributes qty times a negative one.
C27_KindDecidesSign ==
    (call.name = "get_total_delta" /\ Returned) =>
        \A symbol \in DOMAIN portfolio.positions :
            LET position == portfolio.positions[symbol]
                contribution == PositionDelta(position, call.current_prices)
            IN  position.instrument_type = "option" =>
                    /\ \E band \in BandsOfKind(KindOfSymbol(symbol)) :
                           contribution = RatMul(band, RatInt(position.qty))
                    /\ DOMAIN portfolio.positions = {symbol} =>
                           ret.value = contribution

\* This step is a call of update_fill: it is the only call that changes the
\* portfolio.
FillStep == portfolio' # portfolio

\* C29: each update_fill call appends exactly one transaction; when the fill
\* closes a position (existing.qty + qty = 0) the transaction carries the
\* realized P&L (fill price - entry avg_px) * the closed position's signed
\* quantity, which is what get_unrealized_pnl reports for that position at
\* the fill price; no other transaction carries a P&L.
C29_RealizedPnl ==
    [][FillStep =>
          LET before == portfolio.transactions
              after == portfolio'.transactions
              fill == after[Len(after)]
              closing ==
                  /\ fill.symbol \in DOMAIN portfolio.positions
                  /\ portfolio.positions[fill.symbol].qty + fill.qty = 0
          IN  /\ Len(after) = Len(before) + 1
              /\ SubSeq(after, 1, Len(before)) = before
              /\ IF closing
                 THEN LET closed == portfolio.positions[fill.symbol]
                      IN  fill.pnl =
                              [given |-> TRUE,
                               value |-> RatMul(RatSub(RatInt(fill.price),
                                                       closed.avg_px),
                                                RatInt(closed.qty))]
                 ELSE fill.pnl = NoPnl]_vars

\* get_dynamic_hedge_recommendation has returned its list.
DynamicHedgeReturned ==
    /\ call.name = "get_dynamic_hedge_recommendation"
    /\ ret.pc = "done"
    /\ ret.raised = NoError

\* The contracts traded when the recommendation is followed: +quantity for
\* buy, -quantity for sell.
TradedContracts(rec) ==
    IF rec.direction = "buy" THEN rec.quantity ELSE RatNeg(rec.quantity)

\* C28: following any recommendation of get_dynamic_hedge_recommendation
\* (its unsigned quantity in its direction, at the signed delta of the
\* option) changes the portfolio delta by target_delta - portfolio_delta,
\* for positive and negative portfolio_delta alike.
C28_DirectionReachesTarget ==
    DynamicHedgeReturned =>
        \A i \in 1..Len(ret.recommendations) :
            LET rec == ret.recommendations[i]
            IN  /\ rec.target_delta = call.target_delta
                /\ RatMul(TradedContracts(rec), SignedDelta(rec.option_contract))
                       = RatSub(call.target_delta, call.portfolio_delta)

\* The step is a check that ran with a known user to alert.
CheckStep ==
    /\ call'.name = "check_risk_metrics_and_alert"
    /\ ret'.checked
    /\ bot'.risk_config = bot.risk_config

\* The last check before the step found the metric above its threshold.
PrevBreached(metric) ==
    /\ call.name = "check_risk_metrics_and_alert"
    /\ ret.checked
    /\ metric \in ret.breached

\* The message of the check carries an alert line for the metric.
Alerted(metric) == \E i \in DOMAIN ret.alerts : ret.alerts[i] = metric

=============================================================================
